---- MODULE Spec2Model ----
(***************************************************************************)
(* Window-Go: the window's focus chain, the key dispatcher of              *)
(* Window.WindowActions, the MenuBar/Menu tree, the Prompt state machine   *)
(* and the z-ordered frame of Window.Render.                               *)
(*                                                                         *)
(* Indices (focusedIndex, SelectedIdx) are 0-based as in the Go source;    *)
(* TLA+ sequences are 1-based, so element i of a Go slice is seq[i + 1].   *)
(***************************************************************************)
EXTENDS Integers, Sequences, FiniteSets

\* ------------------------------------------------------------------ bounds
\* Longest element list (Window.Elements) the model builds.
MaxElems == 2
\* setFocus is tried with every index from -FocusSlack to len + FocusSlack.
FocusSlack == 1
\* Most rows of a Container's content, and its greatest height.
MaxRows == 10
MaxHeight == 4
\* Longest run of HighlightNext calls that is counted.
MaxNexts == 8
\* Greatest MaxValue of a ScrollBar; SetValue and NewScrollBar are tried with
\* every value from -ScrollSlack to MaxScroll + ScrollSlack.
MaxScroll == 3
ScrollSlack == 2
\* RadioGroup.Select is tried with every index from -RadioSlack to
\* NumRadio + RadioSlack - 1.
RadioSlack == 3
\* Longest text given to TextArea.SetText or typed into the TextArea.
MaxLen == 4
\* Most elements added to the window that takes every kind of element, and
\* the length up to which text is typed into its TextArea and TextBox.
MaxWide == 1
\* Most elements added to the window whose frames are examined for the cursor.
MaxCursorElems == 2
\* Longest title and greatest width of the window whose title is rendered.
MaxTitle == 15
MaxWidth == 12
MaxText == 2

\* ------------------------------------------------- the elements of a window
\* One object of each element kind the focus and z-order code distinguishes.
ElemIds == {"lbl", "btn", "mb", "pm", "pn"}

\* The other element kinds of the type switches: a TextBox, a CheckBox, a
\* RadioButton, a ScrollBar added directly, a TextArea and a Container.
WidgetIds == {"tb", "cb", "rb", "sb", "ta", "ct"}

\* Every object that can carry the focus: the elements above and the
\* Container's internal ScrollBar "csb", which AddElement puts into the focus
\* chain together with its Container.
AllIds == ElemIds \cup WidgetIds \cup {"csb"}

Kind(e) ==
    CASE e = "lbl" -> "Label"
      [] e = "btn" -> "Button"
      [] e = "mb"  -> "MenuBar"
      [] e = "pm"  -> "Prompt"
      [] e = "pn"  -> "Prompt"
      [] e = "tb"  -> "TextBox"
      [] e = "cb"  -> "CheckBox"
      [] e = "rb"  -> "RadioButton"
      [] e = "sb"  -> "ScrollBar"
      [] e = "csb" -> "ScrollBar"
      [] e = "ta"  -> "TextArea"
      [] e = "ct"  -> "Container"

PromptIds == {"pm", "pn"}

\* Prompt.Modal: NewDialogPrompt sets it, NewSingleLinePrompt does not.
Modal(p) == p = "pm"

\* len(p.Buttons)
NumButtons(p) == IF p = "pm" THEN 3 ELSE 2

\* p.Buttons[i].Action != nil: the third button of the dialog prompt is built
\* without an Action, every other button with one.
ButtonHasAction(p, i) == ~(p = "pm" /\ i = 2)

\* ------------------------------------------------------------ the menu tree
\* The tree built by MenuBar.AddItem / AddSubMenu / Menu.AddItem:
\*   top:    [ leaf, file >, leaf without action ]
\*   file:   [ leaf, recent > ]
\*   recent: [ leaf, leaf ]
MenuIds == {"top", "file", "recent"}
NoMenu == "nil"

MenuItem(sub, hasAction) == [SubMenu |-> sub, HasAction |-> hasAction]

Items(m) ==
    CASE m = "top"    -> << MenuItem(NoMenu, TRUE), MenuItem("file", FALSE),
                            MenuItem(NoMenu, FALSE) >>
      [] m = "file"   -> << MenuItem(NoMenu, TRUE), MenuItem("recent", FALSE) >>
      [] m = "recent" -> << MenuItem(NoMenu, TRUE), MenuItem(NoMenu, TRUE) >>

\* MenuBar.Menu
TopMenu == "top"

\* Menu.IsTopLevel
IsTopLevel(m) == m = TopMenu

\* --------------------------------------------------------------- the state
VARIABLES
    Elements,           \* Window.Elements, in insertion order
    focusableElements,  \* Window.focusableElements (the focus chain)
    focusedIndex,       \* Window.focusedIndex, -1 when nothing is focused
    IsActive,           \* the IsActive field of each element
    pSelectedIdx,       \* Prompt.SelectedIdx of each prompt
    pButtonActive,      \* PromptButton.IsActive of each prompt's buttons
    mSelectedIdx,       \* Menu.SelectedIdx of each menu
    mIsOpen,            \* Menu.IsOpen of each menu
    mItemActive,        \* MenuItem.IsActive of each menu's items
    ActiveMenu,         \* MenuBar.ActiveMenu, NoMenu for nil
    sbar,               \* Value, MaxValue and Visible of each ScrollBar
    cont,               \* the fields of the Container
    tarea,              \* the fields of the TextArea
    tbox,               \* Text, CursorPos and IsPristine of the TextBox
    Checked,            \* CheckBox.Checked
    rg,                 \* the RadioGroup: SelectedIndex, SelectedValue and
                        \* the IsSelected flag of each of its buttons
    KeyHandler,         \* Window.KeyHandler != nil
    termRaw,            \* the terminal is in raw mode
    cursorShown,        \* the terminal's cursor is visible
    cursorAt,           \* the element to whose reported position the last
                        \* frame moved the cursor, "" if it moved it nowhere
    Title,              \* w.Icon + " " + w.Title, one character per cell
    Width,              \* Window.Width
    topBorder,          \* the top border of the last Render: the title as
                        \* written and the padding on both sides of it, or
                        \* that Render panicked
    loop,               \* "setup" before WindowActions, "running", "quit"
    frame,              \* what the last operation's Window.Render painted, in
                        \* paint order; << >> if it did not render
    ev,                 \* the last operation and its inputs
    calls               \* the callbacks the last operation invoked, in order

\* The variables of the window, its menus and its prompts.
windowVars == << Elements, focusableElements, focusedIndex, IsActive,
                 pSelectedIdx, pButtonActive, mSelectedIdx, mIsOpen,
                 mItemActive, ActiveMenu >>

\* The variables of the other widgets.
widgetVars == << sbar, cont, tarea, tbox, Checked, rg >>

\* The variables of the terminal.
termVars == << termRaw, cursorShown, cursorAt >>

titleVars == << Title, Width, topBorder >>

vars == << Elements, focusableElements, focusedIndex, IsActive, pSelectedIdx,
           pButtonActive, mSelectedIdx, mIsOpen, mItemActive, ActiveMenu,
           sbar, cont, tarea, tbox, Checked, rg, KeyHandler, termRaw,
           cursorShown, cursorAt, Title, Width, topBorder, loop, frame, ev, calls >>

\* The heap as one record, so that a handler is the composition of the
\* methods it calls.  trace collects the callbacks run by methods that
\* return nothing (OnScroll, OnItemSelected), in order.
Heap ==
    [ Elements          |-> Elements,
      focusableElements |-> focusableElements,
      focusedIndex      |-> focusedIndex,
      IsActive          |-> IsActive,
      pSelectedIdx      |-> pSelectedIdx,
      pButtonActive     |-> pButtonActive,
      mSelectedIdx      |-> mSelectedIdx,
      mIsOpen           |-> mIsOpen,
      mItemActive       |-> mItemActive,
      ActiveMenu        |-> ActiveMenu,
      sbar              |-> sbar,
      cont              |-> cont,
      tarea             |-> tarea,
      tbox              |-> tbox,
      Checked           |-> Checked,
      rg                |-> rg,
      termRaw           |-> termRaw,
      cursorShown       |-> cursorShown,
      cursorAt          |-> cursorAt,
      Title             |-> Title,
      Width             |-> Width,
      topBorder         |-> topBorder,
      trace             |-> << >> ]

Store(s) ==
    \E h \in {s} :
        /\ Elements' = h.Elements
        /\ focusableElements' = h.focusableElements
        /\ focusedIndex' = h.focusedIndex
        /\ IsActive' = h.IsActive
        /\ pSelectedIdx' = h.pSelectedIdx
        /\ pButtonActive' = h.pButtonActive
        /\ mSelectedIdx' = h.mSelectedIdx
        /\ mIsOpen' = h.mIsOpen
        /\ mItemActive' = h.mItemActive
        /\ ActiveMenu' = h.ActiveMenu
        /\ sbar' = h.sbar
        /\ cont' = h.cont
        /\ tarea' = h.tarea
        /\ tbox' = h.tbox
        /\ Checked' = h.Checked
        /\ rg' = h.rg
        /\ termRaw' = h.termRaw
        /\ cursorShown' = h.cursorShown
        /\ cursorAt' = h.cursorAt
        /\ Title' = h.Title
        /\ Width' = h.Width
        /\ topBorder' = h.topBorder

\* ------------------------------------------------------------------ Prompt
\* Prompt.SetActive
Prompt_SetActive(s, p, active) ==
    [s EXCEPT !.IsActive[p] = active,
              !.pButtonActive[p] =
                  [i \in 0..(NumButtons(p) - 1) |->
                      (i = s.pSelectedIdx[p] /\ active)]]

\* Mutant of Prompt.IsModal: the active test is inverted.
Prompt_IsModal_Inverted(s, p) == Modal(p) /\ ~s.IsActive[p]

\* Prompt.IsModal
Prompt_IsModal(s, p) == Modal(p) /\ s.IsActive[p]

\* Mutant of Prompt.SelectNext: stops at the last button instead of wrapping.
Prompt_SelectNext_NoWrap(s, p) ==
    IF ~s.IsActive[p] \/ NumButtons(p) <= 1
    THEN s
    ELSE LET old == s.pSelectedIdx[p]
             new == IF old + 1 >= NumButtons(p) THEN old ELSE old + 1
         IN [s EXCEPT !.pSelectedIdx[p] = new,
                      !.pButtonActive[p] =
                          [i \in 0..(NumButtons(p) - 1) |-> i = new]]

\* Prompt.SelectNext
Prompt_SelectNext(s, p) ==
    IF ~s.IsActive[p] \/ NumButtons(p) <= 1
    THEN s
    ELSE LET old == s.pSelectedIdx[p]
             cleared == IF old >= 0 /\ old < NumButtons(p)
                        THEN [s.pButtonActive[p] EXCEPT ![old] = FALSE]
                        ELSE s.pButtonActive[p]
             new == (old + 1) % NumButtons(p)
         IN [s EXCEPT !.pSelectedIdx[p] = new,
                      !.pButtonActive[p] = [cleared EXCEPT ![new] = TRUE]]

\* Mutant of Prompt.SelectPrevious: the button selected so far keeps its
\* active flag.
Prompt_SelectPrevious_KeepsOld(s, p) ==
    IF ~s.IsActive[p] \/ NumButtons(p) <= 1
    THEN s
    ELSE LET old == s.pSelectedIdx[p]
             new == IF old - 1 < 0 THEN NumButtons(p) - 1 ELSE old - 1
         IN [s EXCEPT !.pSelectedIdx[p] = new,
                      !.pButtonActive[p][new] = TRUE]

\* Prompt.SelectPrevious
Prompt_SelectPrevious(s, p) ==
    IF ~s.IsActive[p] \/ NumButtons(p) <= 1
    THEN s
    ELSE LET old == s.pSelectedIdx[p]
             cleared == IF old >= 0 /\ old < NumButtons(p)
                        THEN [s.pButtonActive[p] EXCEPT ![old] = FALSE]
                        ELSE s.pButtonActive[p]
             new == IF old - 1 < 0 THEN NumButtons(p) - 1 ELSE old - 1
         IN [s EXCEPT !.pSelectedIdx[p] = new,
                      !.pButtonActive[p] = [cleared EXCEPT ![new] = TRUE]]

\* The result of a method that may run a callback: the heap after it, the
\* value it returns, and the callbacks it ran.
Outcome(s, result, ran) == [s |-> s, result |-> result, calls |-> ran]

\* Mutant of Prompt.ActivateSelected: the prompt is closed whatever the
\* button's Action returns.
Prompt_ActivateSelected_AlwaysCloses(s, p, ret) ==
    IF ~s.IsActive[p] \/ s.pSelectedIdx[p] < 0
                      \/ s.pSelectedIdx[p] >= NumButtons(p)
    THEN Outcome(s, FALSE, << >>)
    ELSE IF ButtonHasAction(p, s.pSelectedIdx[p])
    THEN Outcome(Prompt_SetActive(s, p, FALSE),
                 ret,
                 << << "PromptButton", p, s.pSelectedIdx[p] >> >>)
    ELSE Outcome(s, FALSE, << >>)

\* Prompt.ActivateSelected; ret is what the selected button's Action returns.
Prompt_ActivateSelected(s, p, ret) ==
    IF ~s.IsActive[p] \/ s.pSelectedIdx[p] < 0
                      \/ s.pSelectedIdx[p] >= NumButtons(p)
    THEN Outcome(s, FALSE, << >>)
    ELSE IF ButtonHasAction(p, s.pSelectedIdx[p])
    THEN Outcome(IF ret THEN Prompt_SetActive(s, p, FALSE) ELSE s,
                 ret,
                 << << "PromptButton", p, s.pSelectedIdx[p] >> >>)
    ELSE Outcome(s, FALSE, << >>)

\* -------------------------------------------------------------------- Menu
\* len(m.Items)
NumItems(m) == Len(Items(m))

\* m.Items[i]
Item(m, i) == Items(m)[i + 1]

\* Menu.SelectNext
Menu_SelectNext(s, m) ==
    IF NumItems(m) = 0
    THEN s
    ELSE LET old == s.mSelectedIdx[m]
             cleared == IF old >= 0 /\ old < NumItems(m)
                        THEN [s.mItemActive[m] EXCEPT ![old] = FALSE]
                        ELSE s.mItemActive[m]
             new == (old + 1) % NumItems(m)
         IN [s EXCEPT !.mSelectedIdx[m] = new,
                      !.mItemActive[m] = [cleared EXCEPT ![new] = TRUE]]

\* Menu.SelectPrevious
Menu_SelectPrevious(s, m) ==
    IF NumItems(m) = 0
    THEN s
    ELSE LET old == s.mSelectedIdx[m]
             cleared == IF old >= 0 /\ old < NumItems(m)
                        THEN [s.mItemActive[m] EXCEPT ![old] = FALSE]
                        ELSE s.mItemActive[m]
             new == IF old - 1 < 0 THEN NumItems(m) - 1 ELSE old - 1
         IN [s EXCEPT !.mSelectedIdx[m] = new,
                      !.mItemActive[m] = [cleared EXCEPT ![new] = TRUE]]

\* The part of Menu.ActivateSelected and MenuBar.MoveDown that opens a
\* submenu: IsOpen, SelectedIdx = 0, and the first item active if there is one.
OpenSubMenu(s, sub) ==
    [s EXCEPT !.mIsOpen[sub] = TRUE,
              !.mSelectedIdx[sub] = 0,
              !.mItemActive[sub] =
                  IF NumItems(sub) > 0
                  THEN [s.mItemActive[sub] EXCEPT ![0] = TRUE]
                  ELSE s.mItemActive[sub]]

\* Menu.ActivateSelected; ret is what the item's Action returns if it runs.
Menu_ActivateSelected(s, m, ret) ==
    IF m = NoMenu \/ s.mSelectedIdx[m] < 0 \/ s.mSelectedIdx[m] >= NumItems(m)
    THEN Outcome(s, FALSE, << >>)
    ELSE LET item == Item(m, s.mSelectedIdx[m])
         IN IF item.SubMenu # NoMenu
            THEN Outcome(OpenSubMenu(s, item.SubMenu), FALSE, << >>)
            ELSE IF item.HasAction
                 THEN Outcome(s, ret, << << "MenuItem", m, s.mSelectedIdx[m] >> >>)
                 ELSE Outcome(s, FALSE, << >>)

\* Menu.CloseSubMenus: the loop over m.Items from item i on, recursing into
\* every submenu.
RECURSIVE CloseSubMenusFrom(_, _, _)
CloseSubMenusFrom(s, m, i) ==
    IF i >= NumItems(m)
    THEN s
    ELSE LET sub == Item(m, i).SubMenu
         IN IF sub # NoMenu
            THEN CloseSubMenusFrom(
                     CloseSubMenusFrom([s EXCEPT !.mIsOpen[sub] = FALSE], sub, 0),
                     m, i + 1)
            ELSE CloseSubMenusFrom(s, m, i + 1)

\* Mutant of Menu.CloseSubMenus: closes the direct submenus only.
Menu_CloseSubMenus_Shallow(s, m) ==
    [s EXCEPT !.mIsOpen =
        [x \in MenuIds |->
            IF \E i \in 0..(NumItems(m) - 1) : Item(m, i).SubMenu = x
            THEN FALSE
            ELSE s.mIsOpen[x]]]

\* Menu.CloseSubMenus
Menu_CloseSubMenus(s, m) == CloseSubMenusFrom(s, m, 0)

\* Menu.GetZIndex
Menu_GetZIndex(m) == IF IsTopLevel(m) THEN 100 ELSE 150

\* ----------------------------------------------------------------- MenuBar
\* MenuBar.Activate
MenuBar_Activate(s, mb) ==
    LET a == [s EXCEPT !.IsActive[mb] = TRUE]
    IN IF a.mSelectedIdx[TopMenu] < 0 /\ NumItems(TopMenu) > 0
       THEN [a EXCEPT !.mSelectedIdx[TopMenu] = 0,
                      !.mItemActive[TopMenu][0] = TRUE]
       ELSE a

\* Mutant of MenuBar.Deactivate: the top-level selection is not cleared.
MenuBar_Deactivate_KeepsSelection(s, mb) ==
    Menu_CloseSubMenus([s EXCEPT !.IsActive[mb] = FALSE, !.ActiveMenu = NoMenu],
                       TopMenu)

\* MenuBar.Deactivate
MenuBar_Deactivate(s, mb) ==
    LET sel == s.mSelectedIdx[TopMenu]
        a == [s EXCEPT !.IsActive[mb] = FALSE, !.ActiveMenu = NoMenu]
        b == IF sel >= 0 /\ sel < NumItems(TopMenu)
             THEN [a EXCEPT !.mItemActive[TopMenu][sel] = FALSE]
             ELSE a
        c == [b EXCEPT !.mSelectedIdx[TopMenu] = -1]
    IN Menu_CloseSubMenus(c, TopMenu)

\* MenuBar.SelectNext
MenuBar_SelectNext(s, mb) ==
    IF ~s.IsActive[mb]
    THEN s
    ELSE IF s.ActiveMenu # NoMenu
    THEN Menu_SelectNext(s, s.ActiveMenu)
    ELSE Menu_SelectNext(s, TopMenu)

\* MenuBar.SelectPrevious
MenuBar_SelectPrevious(s, mb) ==
    IF ~s.IsActive[mb]
    THEN s
    ELSE IF s.ActiveMenu # NoMenu
    THEN Menu_SelectPrevious(s, s.ActiveMenu)
    ELSE Menu_SelectPrevious(s, TopMenu)

\* MenuBar.MoveRight
MenuBar_MoveRight(s, mb) ==
    IF ~s.IsActive[mb] \/ s.ActiveMenu # NoMenu
    THEN s
    ELSE Menu_SelectNext(s, TopMenu)

\* MenuBar.MoveLeft
MenuBar_MoveLeft(s, mb) ==
    IF ~s.IsActive[mb] \/ s.ActiveMenu # NoMenu
    THEN s
    ELSE Menu_SelectPrevious(s, TopMenu)

\* Mutant of MenuBar.MoveDown: the submenu is opened but does not become the
\* active menu.
MenuBar_MoveDown_NoPush(s, mb) ==
    IF ~s.IsActive[mb]
    THEN s
    ELSE IF s.ActiveMenu # NoMenu
    THEN Menu_SelectNext(s, s.ActiveMenu)
    ELSE LET sel == s.mSelectedIdx[TopMenu]
         IN IF sel >= 0 /\ sel < NumItems(TopMenu)
                /\ Item(TopMenu, sel).SubMenu # NoMenu
            THEN OpenSubMenu(s, Item(TopMenu, sel).SubMenu)
            ELSE s

\* MenuBar.MoveDown
MenuBar_MoveDown(s, mb) ==
    IF ~s.IsActive[mb]
    THEN s
    ELSE IF s.ActiveMenu # NoMenu
    THEN Menu_SelectNext(s, s.ActiveMenu)
    ELSE LET sel == s.mSelectedIdx[TopMenu]
         IN IF sel >= 0 /\ sel < NumItems(TopMenu)
                /\ Item(TopMenu, sel).SubMenu # NoMenu
            THEN [OpenSubMenu(s, Item(TopMenu, sel).SubMenu)
                      EXCEPT !.ActiveMenu = Item(TopMenu, sel).SubMenu]
            ELSE s

\* Mutant of MenuBar.MoveUp: at the first item the selection wraps to the last
\* one instead of closing the submenu.
MenuBar_MoveUp_Wraps(s, mb) ==
    IF ~s.IsActive[mb]
    THEN s
    ELSE IF s.ActiveMenu # NoMenu
    THEN Menu_SelectPrevious(s, s.ActiveMenu)
    ELSE s

\* MenuBar.MoveUp
MenuBar_MoveUp(s, mb) ==
    IF ~s.IsActive[mb]
    THEN s
    ELSE IF s.ActiveMenu # NoMenu
    THEN IF s.mSelectedIdx[s.ActiveMenu] > 0
         THEN Menu_SelectPrevious(s, s.ActiveMenu)
         ELSE [s EXCEPT !.mIsOpen[s.ActiveMenu] = FALSE,
                        !.ActiveMenu = NoMenu]
    ELSE s

\* The tail of both branches of MenuBar.ActivateSelected: if the selected
\* item of menu m owns a submenu that is now open, it becomes ActiveMenu.
EnterOpenedSubMenu(s, m) ==
    LET sel == s.mSelectedIdx[m]
    IN IF sel >= 0 /\ sel < NumItems(m)
           /\ Item(m, sel).SubMenu # NoMenu
           /\ s.mIsOpen[Item(m, sel).SubMenu]
       THEN [s EXCEPT !.ActiveMenu = Item(m, sel).SubMenu]
       ELSE s

\* MenuBar.ActivateSelected
MenuBar_ActivateSelected(s, mb, ret) ==
    IF ~s.IsActive[mb]
    THEN Outcome(s, FALSE, << >>)
    ELSE LET currentMenu == IF s.ActiveMenu # NoMenu THEN s.ActiveMenu ELSE TopMenu
             r == Menu_ActivateSelected(s, currentMenu, ret)
         IN IF r.result
            THEN Outcome(MenuBar_Deactivate(r.s, mb), TRUE, r.calls)
            ELSE Outcome(EnterOpenedSubMenu(r.s, currentMenu), r.result, r.calls)

\* MenuBar.GetZIndex
MenuBar_GetZIndex == 100

\* --------------------------------------------------------------- ScrollBar
\* "sb" is a ScrollBar added to the window directly, with an OnScroll
\* callback set by the application; "csb" is the Container's internal one
\* (OnScroll nil) and "tsb" the TextArea's (OnScroll stores viewTopLine).
ScrollBarIds == {"sb", "csb", "tsb"}

\* NewScrollBar: value and maxValue are clamped, the bar starts hidden.
NewScrollBar(value, maxValue) ==
    LET mx == IF maxValue < 0 THEN 0 ELSE maxValue
        v0 == IF value < 0 THEN 0 ELSE value
    IN [Value |-> IF v0 > mx THEN mx ELSE v0, MaxValue |-> mx, Visible |-> FALSE]

\* sb.OnScroll(newValue), if it is set.
OnScroll(s, b, newValue) ==
    CASE b = "sb"  -> [s EXCEPT !.trace = Append(@, << "OnScroll", b, newValue >>)]
      [] b = "tsb" -> [s EXCEPT !.tarea.viewTopLine = newValue]
      [] OTHER     -> s

\* Mutant of ScrollBar.SetValue: the callback runs on every call.
ScrollBar_SetValue_AlwaysNotifies(s, b, value) ==
    LET newValue == IF value < 0 THEN 0
                    ELSE IF value > s.sbar[b].MaxValue THEN s.sbar[b].MaxValue
                    ELSE value
    IN OnScroll([s EXCEPT !.sbar[b].Value = newValue], b, newValue)

\* ScrollBar.SetValue
ScrollBar_SetValue(s, b, value) ==
    LET oldValue == s.sbar[b].Value
        newValue == IF value < 0 THEN 0
                    ELSE IF value > s.sbar[b].MaxValue THEN s.sbar[b].MaxValue
                    ELSE value
    IN IF newValue # oldValue
       THEN OnScroll([s EXCEPT !.sbar[b].Value = newValue], b, newValue)
       ELSE s

\* --------------------------------------------------------------- Container
\* The content of n rows: only the number of rows matters to the Container.
Rows(n) == [i \in 1..n |-> i]

\* Container.ensureHighlightVisible
Container_ensureHighlightVisible(s) ==
    IF ~s.sbar["csb"].Visible \/ s.cont.HighlightedIndex < 0
    THEN s
    ELSE LET scrollOffset == s.sbar["csb"].Value
             bottomVisibleIndex == scrollOffset + s.cont.Height - 1
         IN IF s.cont.HighlightedIndex < scrollOffset
            THEN ScrollBar_SetValue(s, "csb", s.cont.HighlightedIndex)
            ELSE IF s.cont.HighlightedIndex > bottomVisibleIndex
            THEN ScrollBar_SetValue(s, "csb",
                                    s.cont.HighlightedIndex - s.cont.Height + 1)
            ELSE s

\* Container.updateScrollState
Container_updateScrollState(s) ==
    LET total == Len(s.cont.Content)
        needs == total > s.cont.Height
        a == [s EXCEPT !.cont.totalContentHeight = total,
                       !.cont.needsScroll = needs,
                       !.cont.HighlightedIndex =
                           IF @ >= total
                           THEN (IF total > 0 THEN total - 1 ELSE -1)
                           ELSE @,
                       !.sbar["csb"].Visible = needs]
        b == IF needs
             THEN LET sbMaxValue == IF total - a.cont.Height < 0 THEN 0
                                    ELSE total - a.cont.Height
                      m == [a EXCEPT !.sbar["csb"].MaxValue = sbMaxValue]
                  IN ScrollBar_SetValue(m, "csb", m.sbar["csb"].Value)
             ELSE ScrollBar_SetValue([a EXCEPT !.sbar["csb"].MaxValue = 0], "csb", 0)
    IN Container_ensureHighlightVisible(b)

\* NewContainer(x, y, width, height, content)
NewContainer(s, height, content) ==
    LET a == [s EXCEPT
                !.sbar["csb"] = NewScrollBar(0, 0),
                !.cont = [ Height                |-> IF height < 1 THEN 1 ELSE height,
                           Content               |-> content,
                           needsScroll           |-> FALSE,
                           totalContentHeight    |-> 0,
                           HighlightedIndex      |-> 0,
                           SelectedIndex         |-> -1,
                           lastConfirmedIndex    |-> -1,
                           hasConfirmedSelection |-> FALSE ]]
        b == Container_updateScrollState(a)
        c == IF b.cont.HighlightedIndex >= Len(content) /\ Len(content) > 0
             THEN [b EXCEPT !.cont.HighlightedIndex = Len(content) - 1]
             ELSE IF Len(content) = 0
             THEN [b EXCEPT !.cont.HighlightedIndex = -1]
             ELSE b
    IN Container_ensureHighlightVisible(c)

\* Container.SetContent
Container_SetContent(s, content) ==
    LET a == IF s.cont.hasConfirmedSelection
                /\ (s.cont.lastConfirmedIndex < 0
                    \/ s.cont.lastConfirmedIndex >= Len(content))
             THEN [s EXCEPT !.cont.hasConfirmedSelection = FALSE,
                            !.cont.SelectedIndex = -1]
             ELSE s
    IN Container_updateScrollState([a EXCEPT !.cont.Content = content])

\* Container.GetScrollOffset
Container_GetScrollOffset(s) == s.sbar["csb"].Value

\* Container.SelectHighlightedItem.  The Container of the model has an
\* OnItemSelected callback.
Container_SelectHighlightedItem(s) ==
    IF s.cont.HighlightedIndex >= 0 /\ s.cont.HighlightedIndex < Len(s.cont.Content)
    THEN [s EXCEPT !.cont.SelectedIndex = s.cont.HighlightedIndex,
                   !.cont.lastConfirmedIndex = s.cont.HighlightedIndex,
                   !.cont.hasConfirmedSelection = TRUE,
                   !.trace = Append(@, << "OnItemSelected", "ct",
                                          s.cont.HighlightedIndex >>)]
    ELSE s

\* Container.ConfirmSelection
Container_ConfirmSelection(s) == Container_SelectHighlightedItem(s)

\* Container.ClearConfirmedSelection
Container_ClearConfirmedSelection(s) ==
    [s EXCEPT !.cont.SelectedIndex = -1,
              !.cont.lastConfirmedIndex = -1,
              !.cont.hasConfirmedSelection = FALSE]

\* Mutant of Container.HighlightNext: the viewport does not follow.
Container_HighlightNext_NoScroll(s) ==
    IF s.cont.HighlightedIndex < s.cont.totalContentHeight - 1
    THEN [s EXCEPT !.cont.HighlightedIndex = @ + 1]
    ELSE s

\* Container.HighlightNext (and SelectNext, which delegates to it)
Container_HighlightNext(s) ==
    IF s.cont.HighlightedIndex < s.cont.totalContentHeight - 1
    THEN Container_ensureHighlightVisible([s EXCEPT !.cont.HighlightedIndex = @ + 1])
    ELSE s

\* Container.HighlightPrevious (and SelectPrevious, which delegates to it)
Container_HighlightPrevious(s) ==
    IF s.cont.HighlightedIndex > 0
    THEN Container_ensureHighlightVisible([s EXCEPT !.cont.HighlightedIndex = @ - 1])
    ELSE s

\* -------------------------------------------------------------- RadioGroup
\* len(rg.Buttons): the RadioButtons created with NewRadioButton in the group.
NumRadio == 3

\* rg.Buttons[i].Value
RadioValue(i) == << "value", i >>

\* NewRadioGroup followed by NumRadio calls of NewRadioButton.
NewRadioGroup ==
    [ SelectedIndex |-> -1,
      SelectedValue |-> << >>,
      IsSelected    |-> [i \in 0..(NumRadio - 1) |-> FALSE] ]

\* Mutant of RadioGroup.Select: the range check is missing.
RadioGroup_Select_Unchecked(s, selectedIndex) ==
    [s EXCEPT !.rg = [ SelectedIndex |-> selectedIndex,
                       SelectedValue |-> RadioValue(selectedIndex),
                       IsSelected    |-> [i \in 0..(NumRadio - 1) |->
                                             i = selectedIndex] ]]

\* RadioGroup.Select
RadioGroup_Select(s, selectedIndex) ==
    IF selectedIndex < 0 \/ selectedIndex >= NumRadio
    THEN s
    ELSE [s EXCEPT !.rg = [ SelectedIndex |-> selectedIndex,
                            SelectedValue |-> RadioValue(selectedIndex),
                            IsSelected    |-> [i \in 0..(NumRadio - 1) |->
                                                  i = selectedIndex] ]]

\* ----------------------------------------------------------------- strings
\* A string is the sequence of its characters.
CR == "\r"
LF == "\n"

\* strings.ReplaceAll(text, "\r\n", "\n")
RECURSIVE ReplaceCRLF(_)
ReplaceCRLF(text) ==
    IF Len(text) < 2 THEN text
    ELSE IF text[1] = CR /\ text[2] = LF
         THEN << LF >> \o ReplaceCRLF(SubSeq(text, 3, Len(text)))
         ELSE << text[1] >> \o ReplaceCRLF(Tail(text))

\* Mutant of strings.Split(text, "\n"): a final empty line is dropped, as a
\* line scanner would.
RECURSIVE SplitLines_DropsLastEmpty(_)
SplitLines_DropsLastEmpty(text) ==
    IF \A i \in 1..Len(text) : text[i] # LF
    THEN (IF text = << >> THEN << >> ELSE << text >>)
    ELSE LET i == CHOOSE k \in 1..Len(text) :
                      text[k] = LF /\ \A j \in 1..(k - 1) : text[j] # LF
         IN << SubSeq(text, 1, i - 1) >>
                \o SplitLines_DropsLastEmpty(SubSeq(text, i + 1, Len(text)))

\* strings.Split(text, "\n"): always at least one line.
RECURSIVE SplitLines(_)
SplitLines(text) ==
    IF \A i \in 1..Len(text) : text[i] # LF
    THEN << text >>
    ELSE LET i == CHOOSE k \in 1..Len(text) :
                      text[k] = LF /\ \A j \in 1..(k - 1) : text[j] # LF
         IN << SubSeq(text, 1, i - 1) >>
                \o SplitLines(SubSeq(text, i + 1, Len(text)))

\* strings.Join(lines, sep) for a one-character separator
RECURSIVE Join(_, _)
Join(lines, sep) ==
    IF lines = << >> THEN << >>
    ELSE IF Len(lines) = 1 THEN lines[1]
    ELSE lines[1] \o << sep >> \o Join(Tail(lines), sep)

\* unicode.IsSpace for the characters of the model
IsSpace(c) == c \in {" ", "\t", CR, LF}

\* len(strings.Fields(text)): the maximal runs of non-space characters
NumFields(text) ==
    Cardinality({i \in 1..Len(text) :
                    ~IsSpace(text[i]) /\ (i = 1 \/ IsSpace(text[i - 1]))})

\* ---------------------------------------------------------------- TextArea
\* visibleHeight := ta.Height - 1, at least 1
TextArea_visibleHeight(s) ==
    IF s.tarea.Height - 1 < 1 THEN 1 ELSE s.tarea.Height - 1

\* TextArea.calculateCounts: the characters of all lines plus one newline
\* between two lines, and the words of the lines joined by a space.
TextArea_calculateCounts(s) ==
    [s EXCEPT !.tarea.charCount = Len(Join(s.tarea.Lines, LF)),
              !.tarea.wordCount = NumFields(Join(s.tarea.Lines, " "))]

\* Mutant of TextArea.updateScrollState: a bar that is no longer needed is
\* hidden with its value and max left as they were.
TextArea_updateScrollState_Stale(s) ==
    LET contentHeight == Len(s.tarea.Lines)
        needs == contentHeight > TextArea_visibleHeight(s)
        a == [s EXCEPT !.tarea.needsScroll = needs,
                       !.sbar["tsb"].Visible = needs]
    IN IF needs
       THEN LET sbMaxValue == IF contentHeight - TextArea_visibleHeight(s) < 0
                              THEN 0
                              ELSE contentHeight - TextArea_visibleHeight(s)
                b == [a EXCEPT !.sbar["tsb"].MaxValue = sbMaxValue]
                c == ScrollBar_SetValue(b, "tsb", b.sbar["tsb"].Value)
            IN [c EXCEPT !.tarea.viewTopLine = c.sbar["tsb"].Value]
       ELSE [a EXCEPT !.tarea.viewTopLine = 0]

\* TextArea.updateScrollState
TextArea_updateScrollState(s) ==
    LET contentHeight == Len(s.tarea.Lines)
        needs == contentHeight > TextArea_visibleHeight(s)
        a == [s EXCEPT !.tarea.needsScroll = needs,
                       !.sbar["tsb"].Visible = needs]
    IN IF needs
       THEN LET sbMaxValue == IF contentHeight - TextArea_visibleHeight(s) < 0
                              THEN 0
                              ELSE contentHeight - TextArea_visibleHeight(s)
                b == [a EXCEPT !.sbar["tsb"].MaxValue = sbMaxValue]
                c == ScrollBar_SetValue(b, "tsb", b.sbar["tsb"].Value)
            IN [c EXCEPT !.tarea.viewTopLine = c.sbar["tsb"].Value]
       ELSE LET c == ScrollBar_SetValue([a EXCEPT !.sbar["tsb"].MaxValue = 0],
                                        "tsb", 0)
            IN [c EXCEPT !.tarea.viewTopLine = 0]

\* Mutant of TextArea.ensureCursorVisible: the view is never scrolled to the
\* cursor.
TextArea_ensureCursorVisible_Never(s) == s

\* TextArea.ensureCursorVisible
TextArea_ensureCursorVisible(s) ==
    LET bottomVisibleLine == s.tarea.viewTopLine + TextArea_visibleHeight(s) - 1
    IN IF s.tarea.cursorLine < s.tarea.viewTopLine
       THEN ScrollBar_SetValue([s EXCEPT !.tarea.viewTopLine = s.tarea.cursorLine],
                               "tsb", s.tarea.cursorLine)
       ELSE IF s.tarea.cursorLine > bottomVisibleLine
       THEN LET top == s.tarea.cursorLine - TextArea_visibleHeight(s) + 1
            IN ScrollBar_SetValue([s EXCEPT !.tarea.viewTopLine = top], "tsb", top)
       ELSE s

\* TextArea.clampCursorCol
TextArea_clampCursorCol(s) ==
    LET a == IF s.tarea.cursorLine < 0 THEN [s EXCEPT !.tarea.cursorLine = 0] ELSE s
        b == IF a.tarea.cursorLine >= Len(a.tarea.Lines)
             THEN (IF Len(a.tarea.Lines) > 0
                   THEN [a EXCEPT !.tarea.cursorLine = Len(a.tarea.Lines) - 1]
                   ELSE [a EXCEPT !.tarea.Lines = << << >> >>,
                                  !.tarea.cursorLine = 0])
             ELSE a
        currentLineLen == Len(b.tarea.Lines[b.tarea.cursorLine + 1])
    IN IF b.tarea.cursorCol < 0 THEN [b EXCEPT !.tarea.cursorCol = 0]
       ELSE IF b.tarea.cursorCol > currentLineLen
       THEN [b EXCEPT !.tarea.cursorCol = currentLineLen]
       ELSE b

\* The common tail of the editing methods.
TextArea_afterEdit(s) ==
    TextArea_ensureCursorVisible(
        TextArea_updateScrollState(
            TextArea_calculateCounts(
                TextArea_clampCursorCol(s))))

\* The cursor line index brought into range where the methods do so first.
TextArea_lineInRange(s) ==
    IF s.tarea.cursorLine < 0 \/ s.tarea.cursorLine >= Len(s.tarea.Lines)
    THEN TextArea_clampCursorCol(s)
    ELSE s

\* Mutant of TextArea.InsertChar: a reached cap refuses the newline too.
TextArea_InsertChar_CapBlocksNewline(s, r) ==
    IF ~s.IsActive["ta"]
    THEN s
    ELSE IF s.tarea.maxChars > 0 /\ s.tarea.charCount >= s.tarea.maxChars
    THEN s
    ELSE LET a == TextArea_lineInRange(s)
             k == a.tarea.cursorLine + 1
             line == a.tarea.Lines[k]
             col == a.tarea.cursorCol
             b == IF r = LF
                  THEN [a EXCEPT !.tarea.Lines =
                                     SubSeq(a.tarea.Lines, 1, k - 1)
                                       \o << SubSeq(line, 1, col),
                                             SubSeq(line, col + 1, Len(line)) >>
                                       \o SubSeq(a.tarea.Lines, k + 1,
                                                 Len(a.tarea.Lines)),
                                 !.tarea.cursorLine = k,
                                 !.tarea.cursorCol = 0]
                  ELSE [a EXCEPT !.tarea.Lines[k] =
                                     SubSeq(line, 1, col) \o << r >>
                                         \o SubSeq(line, col + 1, Len(line)),
                                 !.tarea.cursorCol = col + 1]
         IN TextArea_afterEdit(b)

\* TextArea.InsertChar
TextArea_InsertChar(s, r) ==
    IF ~s.IsActive["ta"]
    THEN s
    ELSE IF s.tarea.maxChars > 0 /\ s.tarea.charCount >= s.tarea.maxChars /\ r # LF
    THEN s
    ELSE LET a == TextArea_lineInRange(s)
             k == a.tarea.cursorLine + 1
             line == a.tarea.Lines[k]
             col == a.tarea.cursorCol
             b == IF r = LF
                  THEN [a EXCEPT !.tarea.Lines =
                                     SubSeq(a.tarea.Lines, 1, k - 1)
                                       \o << SubSeq(line, 1, col),
                                             SubSeq(line, col + 1, Len(line)) >>
                                       \o SubSeq(a.tarea.Lines, k + 1,
                                                 Len(a.tarea.Lines)),
                                 !.tarea.cursorLine = k,
                                 !.tarea.cursorCol = 0]
                  ELSE [a EXCEPT !.tarea.Lines[k] =
                                     SubSeq(line, 1, col) \o << r >>
                                         \o SubSeq(line, col + 1, Len(line)),
                                 !.tarea.cursorCol = col + 1]
         IN TextArea_afterEdit(b)

\* Mutant of TextArea.DeleteChar: joining two lines leaves the cursor at the
\* start of the joined line.
TextArea_DeleteChar_JoinAtStart(s) ==
    IF ~s.IsActive["ta"] \/ (s.tarea.cursorLine = 0 /\ s.tarea.cursorCol = 0)
    THEN s
    ELSE LET a == TextArea_lineInRange(s)
             k == a.tarea.cursorLine + 1
             line == a.tarea.Lines[k]
             col == a.tarea.cursorCol
             b == IF col > 0
                  THEN [a EXCEPT !.tarea.Lines[k] =
                                     SubSeq(line, 1, col - 1)
                                         \o SubSeq(line, col + 1, Len(line)),
                                 !.tarea.cursorCol = col - 1]
                  ELSE [a EXCEPT !.tarea.Lines =
                                     SubSeq(a.tarea.Lines, 1, k - 2)
                                       \o << a.tarea.Lines[k - 1] \o line >>
                                       \o SubSeq(a.tarea.Lines, k + 1,
                                                 Len(a.tarea.Lines)),
                                 !.tarea.cursorLine = k - 2,
                                 !.tarea.cursorCol = 0]
         IN TextArea_afterEdit(b)

\* TextArea.DeleteChar (Backspace)
TextArea_DeleteChar(s) ==
    IF ~s.IsActive["ta"] \/ (s.tarea.cursorLine = 0 /\ s.tarea.cursorCol = 0)
    THEN s
    ELSE LET a == TextArea_lineInRange(s)
             k == a.tarea.cursorLine + 1
             line == a.tarea.Lines[k]
             col == a.tarea.cursorCol
             b == IF col > 0
                  THEN [a EXCEPT !.tarea.Lines[k] =
                                     SubSeq(line, 1, col - 1)
                                         \o SubSeq(line, col + 1, Len(line)),
                                 !.tarea.cursorCol = col - 1]
                  ELSE [a EXCEPT !.tarea.Lines =
                                     SubSeq(a.tarea.Lines, 1, k - 2)
                                       \o << a.tarea.Lines[k - 1] \o line >>
                                       \o SubSeq(a.tarea.Lines, k + 1,
                                                 Len(a.tarea.Lines)),
                                 !.tarea.cursorLine = k - 2,
                                 !.tarea.cursorCol = Len(a.tarea.Lines[k - 1])]
         IN TextArea_afterEdit(b)

\* TextArea.DeleteForward (Delete)
TextArea_DeleteForward(s) ==
    IF ~s.IsActive["ta"]
    THEN s
    ELSE LET a == TextArea_lineInRange(s)
             k == a.tarea.cursorLine + 1
             line == a.tarea.Lines[k]
             col == a.tarea.cursorCol
         IN IF col < Len(line)
            THEN TextArea_afterEdit(
                     [a EXCEPT !.tarea.Lines[k] =
                                   SubSeq(line, 1, col)
                                       \o SubSeq(line, col + 2, Len(line))])
            ELSE IF k < Len(a.tarea.Lines)
            THEN TextArea_afterEdit(
                     [a EXCEPT !.tarea.Lines =
                                   SubSeq(a.tarea.Lines, 1, k - 1)
                                     \o << line \o a.tarea.Lines[k + 1] >>
                                     \o SubSeq(a.tarea.Lines, k + 2,
                                               Len(a.tarea.Lines))])
            ELSE a

\* TextArea.MoveCursorLeft
TextArea_MoveCursorLeft(s) ==
    TextArea_ensureCursorVisible(
        IF s.tarea.cursorCol > 0
        THEN [s EXCEPT !.tarea.cursorCol = @ - 1]
        ELSE IF s.tarea.cursorLine > 0
        THEN [s EXCEPT !.tarea.cursorLine = @ - 1,
                       !.tarea.cursorCol =
                           IF s.tarea.cursorLine - 1 < Len(s.tarea.Lines)
                           THEN Len(s.tarea.Lines[s.tarea.cursorLine])
                           ELSE 0]
        ELSE s)

\* TextArea.MoveCursorRight
TextArea_MoveCursorRight(s) ==
    LET a == TextArea_lineInRange(s)
        currentLineLen == Len(a.tarea.Lines[a.tarea.cursorLine + 1])
    IN TextArea_ensureCursorVisible(
           IF a.tarea.cursorCol < currentLineLen
           THEN [a EXCEPT !.tarea.cursorCol = @ + 1]
           ELSE IF a.tarea.cursorLine < Len(a.tarea.Lines) - 1
           THEN [a EXCEPT !.tarea.cursorLine = @ + 1, !.tarea.cursorCol = 0]
           ELSE a)

\* TextArea.MoveCursorUp
TextArea_MoveCursorUp(s) ==
    IF s.tarea.cursorLine > 0
    THEN TextArea_ensureCursorVisible(
             TextArea_clampCursorCol([s EXCEPT !.tarea.cursorLine = @ - 1]))
    ELSE s

\* TextArea.MoveCursorDown
TextArea_MoveCursorDown(s) ==
    IF s.tarea.cursorLine < Len(s.tarea.Lines) - 1
    THEN TextArea_ensureCursorVisible(
             TextArea_clampCursorCol([s EXCEPT !.tarea.cursorLine = @ + 1]))
    ELSE s

\* TextArea.MoveCursor
TextArea_MoveCursor(s, deltaLine, deltaCol) ==
    LET targetCol == s.tarea.cursorCol + deltaCol
        targetLine == IF s.tarea.cursorLine + deltaLine < 0 THEN 0
                      ELSE IF s.tarea.cursorLine + deltaLine >= Len(s.tarea.Lines)
                      THEN Len(s.tarea.Lines) - 1
                      ELSE s.tarea.cursorLine + deltaLine
        a == IF targetLine # s.tarea.cursorLine
             THEN TextArea_clampCursorCol([s EXCEPT !.tarea.cursorLine = targetLine])
             ELSE s
        b == IF deltaCol # 0
             THEN TextArea_clampCursorCol([a EXCEPT !.tarea.cursorCol = targetCol])
             ELSE a
    IN TextArea_ensureCursorVisible(b)

\* TextArea.GetText
TextArea_GetText(s) == Join(s.tarea.Lines, LF)

\* TextArea.SetText
TextArea_SetText(s, text) ==
    LET lines == SplitLines(ReplaceCRLF(text))
        a == [s EXCEPT !.tarea.Lines = IF Len(lines) = 0 THEN << << >> >> ELSE lines,
                       !.tarea.cursorLine = 0,
                       !.tarea.cursorCol = 0,
                       !.tarea.viewTopLine = 0]
    IN TextArea_ensureCursorVisible(
           TextArea_updateScrollState(
               TextArea_calculateCounts(a)))

\* NewTextArea(initialText, x, y, width, height, maxChars, ...)
NewTextArea(s, initialText, width, height, maxChars) ==
    LET lines == SplitLines(ReplaceCRLF(initialText))
        a == [s EXCEPT
                !.sbar["tsb"] = NewScrollBar(0, 0),
                !.tarea = [ Width       |-> IF width < 3 THEN 3 ELSE width,
                            Height      |-> IF height < 2 THEN 2 ELSE height,
                            maxChars    |-> maxChars,
                            Lines       |-> IF Len(lines) = 0 THEN << << >> >>
                                            ELSE lines,
                            cursorLine  |-> 0,
                            cursorCol   |-> 0,
                            viewTopLine |-> 0,
                            needsScroll |-> FALSE,
                            charCount   |-> 0,
                            wordCount   |-> 0 ]]
    IN TextArea_ensureCursorVisible(
           TextArea_updateScrollState(
               TextArea_calculateCounts(a)))

\* TextArea.GetCursorPosition: whether the cursor lies in the visible text.
TextArea_cursorValid(s) ==
    LET visibleHeight == IF s.tarea.Height - 1 < 0 THEN 0 ELSE s.tarea.Height - 1
        w0 == IF s.tarea.needsScroll THEN s.tarea.Width - 1 ELSE s.tarea.Width
        textRenderWidth == IF w0 < 0 THEN 0 ELSE w0
        cursorScreenLine == s.tarea.cursorLine - s.tarea.viewTopLine
    IN /\ s.IsActive["ta"]
       /\ cursorScreenLine >= 0
       /\ cursorScreenLine < visibleHeight
       /\ s.tarea.cursorCol >= 0
       /\ s.tarea.cursorCol <= textRenderWidth

\* ----------------------------------------------------------------- TextBox
\* NewTextBox(initialText, ...)
NewTextBox(initialText) ==
    [Text |-> initialText, CursorPos |-> Len(initialText), IsPristine |-> TRUE]

\* ------------------------------------------------------------------ Window
\* len(w.focusableElements)
ChainLen(s) == Len(s.focusableElements)

\* w.focusedIndex >= 0 && w.focusedIndex < len(w.focusableElements)
HasFocus(s) == s.focusedIndex >= 0 /\ s.focusedIndex < ChainLen(s)

\* w.focusableElements[w.focusedIndex]
Focused(s) == s.focusableElements[s.focusedIndex + 1]

\* Mutant of the deactivating type switch: the Prompt case is missing.
DeactivateElement_NoPromptCase(s, el) ==
    CASE Kind(el) = "MenuBar" ->
            MenuBar_Deactivate([s EXCEPT !.IsActive[el] = FALSE], el)
      [] Kind(el) = "Prompt" -> s
      [] OTHER -> [s EXCEPT !.IsActive[el] = FALSE]

\* The type switch of setFocus that deactivates the focused element.
DeactivateElement(s, el) ==
    CASE Kind(el) = "MenuBar" ->
            MenuBar_Deactivate([s EXCEPT !.IsActive[el] = FALSE], el)
      [] Kind(el) = "Prompt" -> Prompt_SetActive(s, el, FALSE)
      [] OTHER -> [s EXCEPT !.IsActive[el] = FALSE]

\* The type switch of setFocus that activates the newly focused element.
ActivateElement(s, el) ==
    CASE Kind(el) = "MenuBar" ->
            MenuBar_Activate([s EXCEPT !.IsActive[el] = TRUE], el)
      [] Kind(el) = "Prompt" -> Prompt_SetActive(s, el, TRUE)
      [] OTHER -> [s EXCEPT !.IsActive[el] = TRUE]

\* Mutant of the index normalisation: > instead of >= for the upper end.
WrapIndex_OffByOne(newIndex, length) ==
    IF newIndex < 0 THEN length - 1
    ELSE IF newIndex > length THEN 0
    ELSE newIndex

\* The index normalisation of setFocus.
WrapIndex(newIndex, length) ==
    IF newIndex < 0 THEN length - 1
    ELSE IF newIndex >= length THEN 0
    ELSE newIndex

\* Window.setFocus
setFocus(s, newIndex) ==
    IF ChainLen(s) = 0
    THEN [s EXCEPT !.focusedIndex = -1]
    ELSE LET a == IF HasFocus(s) THEN DeactivateElement(s, Focused(s)) ELSE s
             b == [a EXCEPT !.focusedIndex = WrapIndex(newIndex, ChainLen(a))]
         IN IF HasFocus(b) THEN ActivateElement(b, Focused(b)) ELSE b

\* The type switch of AddElement: which elements enter the focus chain.
IsFocusable(e) ==
    Kind(e) \in {"Button", "TextBox", "CheckBox", "RadioButton", "ScrollBar",
                 "TextArea", "Container", "MenuBar", "Prompt"}

\* fe == focusableElement for some fe in w.focusableElements
InChain(s, e) == \E i \in 1..ChainLen(s) : s.focusableElements[i] = e

\* elementsToAdd of AddElement: the element if it is focusable, and behind a
\* Container its scrollbar.
elementsToAdd(element) ==
    IF Kind(element) = "Container" THEN << element, "csb" >>
    ELSE IF IsFocusable(element) THEN << element >>
    ELSE << >>

\* Mutant of the loop of AddElement: the chain is not searched for the entry
\* before it is appended.
RECURSIVE addToFocusList_NoDuplicateTest(_, _, _)
addToFocusList_NoDuplicateTest(s, toAdd, k) ==
    IF k > Len(toAdd)
    THEN s
    ELSE LET c == [s EXCEPT !.focusableElements = Append(@, toAdd[k])]
             d == IF c.focusedIndex = -1
                  THEN setFocus([c EXCEPT !.focusedIndex = 0], 0)
                  ELSE c
         IN addToFocusList_NoDuplicateTest(d, toAdd, k + 1)

\* Mutant of the loop of AddElement: every entry appended to the chain gets
\* the focus.
RECURSIVE addToFocusList_FocusesNewest(_, _, _)
addToFocusList_FocusesNewest(s, toAdd, k) ==
    IF k > Len(toAdd)
    THEN s
    ELSE IF InChain(s, toAdd[k])
    THEN addToFocusList_FocusesNewest(s, toAdd, k + 1)
    ELSE LET c == [s EXCEPT !.focusableElements = Append(@, toAdd[k])]
             d == IF c.focusedIndex = -1
                  THEN setFocus([c EXCEPT !.focusedIndex = 0], 0)
                  ELSE setFocus(c, ChainLen(c) - 1)
         IN addToFocusList_FocusesNewest(d, toAdd, k + 1)

\* The loop of AddElement over elementsToAdd from position k on.
RECURSIVE addToFocusList(_, _, _)
addToFocusList(s, toAdd, k) ==
    IF k > Len(toAdd)
    THEN s
    ELSE IF InChain(s, toAdd[k])
    THEN addToFocusList(s, toAdd, k + 1)
    ELSE LET c == [s EXCEPT !.focusableElements = Append(@, toAdd[k])]
             d == IF c.focusedIndex = -1
                  THEN setFocus([c EXCEPT !.focusedIndex = 0], 0)
                  ELSE c
         IN addToFocusList(d, toAdd, k + 1)

\* Window.AddElement
AddElement(s, element) ==
    LET a == [s EXCEPT !.Elements = Append(s.Elements, element)]
        b == CASE Kind(element) \in {"MenuBar", "TextBox", "CheckBox",
                                     "RadioButton", "ScrollBar", "TextArea"} ->
                    [a EXCEPT !.IsActive[element] = FALSE]
               [] Kind(element) = "Container" ->
                    [a EXCEPT !.IsActive[element] = FALSE,
                              !.IsActive["csb"] = FALSE]
               [] Kind(element) = "Prompt" -> Prompt_SetActive(a, element, FALSE)
               [] OTHER -> a
    IN addToFocusList(b, elementsToAdd(element), 1)

\* s without its first entry equal to x, if there is one.
RemoveFirst(seq, x) ==
    IF \E i \in 1..Len(seq) : seq[i] = x
    THEN LET i == CHOOSE k \in 1..Len(seq) :
                      seq[k] = x /\ \A j \in 1..(k - 1) : seq[j] # x
         IN SubSeq(seq, 1, i - 1) \o SubSeq(seq, i + 1, Len(seq))
    ELSE seq

\* Window.RemoveElement
RemoveElement(s, element) ==
    LET a == [s EXCEPT !.Elements = RemoveFirst(@, element)]
    IN IF InChain(a, element)
       THEN LET i == (CHOOSE k \in 1..ChainLen(a) :
                         a.focusableElements[k] = element
                         /\ \A j \in 1..(k - 1) : a.focusableElements[j] # element) - 1
            IN [a EXCEPT !.focusableElements = RemoveFirst(@, element),
                         !.focusedIndex = IF @ >= i THEN @ - 1 ELSE @]
       ELSE a

\* collectSubmenus of getAllElements: the open submenus below menu m from
\* item i on, each followed by its own open submenus.
RECURSIVE collectSubmenusFrom(_, _, _)
collectSubmenusFrom(s, m, i) ==
    IF i >= NumItems(m)
    THEN << >>
    ELSE LET sub == Item(m, i).SubMenu
         IN IF sub # NoMenu /\ s.mIsOpen[sub]
            THEN << sub >> \o collectSubmenusFrom(s, sub, 0)
                           \o collectSubmenusFrom(s, m, i + 1)
            ELSE collectSubmenusFrom(s, m, i + 1)

\* The loop of getAllElements over w.Elements from position k on.
RECURSIVE menusOfElementsFrom(_, _)
menusOfElementsFrom(s, k) ==
    IF k > Len(s.Elements)
    THEN << >>
    ELSE (IF Kind(s.Elements[k]) = "MenuBar"
          THEN collectSubmenusFrom(s, TopMenu, 0)
          ELSE << >>) \o menusOfElementsFrom(s, k + 1)

\* Window.getAllElements
getAllElements(s) == s.Elements \o menusOfElementsFrom(s, 1)

\* The z-index the comparison of getSortedElements reads: GetZIndex() if the
\* entry implements ZIndexer (MenuBar and Menu do), else 0.
ZIndexOf(x) ==
    IF x \in MenuIds THEN Menu_GetZIndex(x)
    ELSE IF Kind(x) = "MenuBar" THEN MenuBar_GetZIndex
    ELSE 0

\* Insertion of x into a sequence sorted by z-index, after every entry whose
\* z-index is not greater (what keeps the sort stable).
RECURSIVE InsertStable(_, _)
InsertStable(sorted, x) ==
    IF sorted = << >> THEN << x >>
    ELSE IF ZIndexOf(x) < ZIndexOf(sorted[Len(sorted)])
         THEN Append(InsertStable(SubSeq(sorted, 1, Len(sorted) - 1), x),
                     sorted[Len(sorted)])
         ELSE Append(sorted, x)

\* sort.SliceStable by z-index
RECURSIVE SortStable(_)
SortStable(elements) ==
    IF elements = << >> THEN << >>
    ELSE InsertStable(SortStable(SubSeq(elements, 1, Len(elements) - 1)),
                      elements[Len(elements)])

\* Window.getSortedElements
getSortedElements(s) == SortStable(getAllElements(s))

\* ------------------------------------------------------------ Window.Render
\* The cursor management at the end of Render: the cursor is shown iff some
\* element of w.Elements needs it and reports a valid position.
needsCursor(s) ==
    \E k \in 1..Len(s.Elements) :
        \/ Kind(s.Elements[k]) = "TextBox" /\ s.IsActive[s.Elements[k]]
        \/ Kind(s.Elements[k]) = "TextArea" /\ TextArea_cursorValid(s)

\* Mutant of the scan of Render: the last element that needs the cursor wins.
cursorOwner_Last(s) ==
    LET k == CHOOSE i \in 1..Len(s.Elements) :
                 /\ \/ Kind(s.Elements[i]) = "TextBox" /\ s.IsActive[s.Elements[i]]
                    \/ Kind(s.Elements[i]) = "TextArea" /\ TextArea_cursorValid(s)
                 /\ \A j \in (i + 1)..Len(s.Elements) :
                       ~(\/ Kind(s.Elements[j]) = "TextBox" /\ s.IsActive[s.Elements[j]]
                         \/ Kind(s.Elements[j]) = "TextArea" /\ TextArea_cursorValid(s))
    IN s.Elements[k]

\* The element at which the scan of Render breaks: the first of w.Elements
\* that needs the cursor and reports a valid position.  Only used when there
\* is one.
cursorOwner(s) ==
    LET k == CHOOSE i \in 1..Len(s.Elements) :
                 /\ \/ Kind(s.Elements[i]) = "TextBox" /\ s.IsActive[s.Elements[i]]
                    \/ Kind(s.Elements[i]) = "TextArea" /\ TextArea_cursorValid(s)
                 /\ \A j \in 1..(i - 1) :
                       ~(\/ Kind(s.Elements[j]) = "TextBox" /\ s.IsActive[s.Elements[j]]
                         \/ Kind(s.Elements[j]) = "TextArea" /\ TextArea_cursorValid(s))
    IN s.Elements[k]

\* No top border was written yet.
NoTop == [panic |-> FALSE, title |-> << >>, leftPadding |-> 0, rightPadding |-> 0]

\* The title of the top border: fullTitle after the truncation of Render,
\* for a title of width-1 characters (its display width is its length).
TruncatedTitle(fullTitle, width) ==
    LET contentWidth == IF width < 0 THEN 0 ELSE width
    IN IF Len(fullTitle) > contentWidth
       THEN (IF contentWidth > 3
             THEN SubSeq(fullTitle, 1, contentWidth - 3) \o << ".", ".", "." >>
             ELSE SubSeq(fullTitle, 1, contentWidth))
       ELSE fullTitle

\* The top border of Render.  strings.Repeat panics on a negative count: for
\* the right padding, and for the w.Width-2 cells of the rows below.
RenderTop(s) ==
    LET contentWidth == IF s.Width < 0 THEN 0 ELSE s.Width
        fullTitle == TruncatedTitle(s.Title, s.Width)
        totalPadding == contentWidth - Len(fullTitle)
        leftPadding == totalPadding \div 2
        rightPadding == totalPadding - leftPadding - 2
    IN [panic        |-> rightPadding < 0 \/ s.Width - 2 < 0,
        title        |-> fullTitle,
        leftPadding  |-> leftPadding,
        rightPadding |-> rightPadding]

\* Window.Render: the top border and the terminal's cursor afterwards.  A
\* Render that panics prints nothing.
Render(s) ==
    IF RenderTop(s).panic
    THEN [s EXCEPT !.topBorder = [NoTop EXCEPT !.panic = TRUE]]
    ELSE IF needsCursor(s)
    THEN [s EXCEPT !.topBorder = RenderTop(s), !.cursorShown = TRUE,
                   !.cursorAt = cursorOwner(s)]
    ELSE [s EXCEPT !.topBorder = RenderTop(s), !.cursorShown = FALSE, !.cursorAt = ""]

\* ----------------------------------------------------- Window.WindowActions
\* The decoded key of one read: ESC [ A/B/C/D/Z, and the single bytes
\* '\t', '\r', 27, 3 and the printable 'q'.
Keys == {"Up", "Down", "Right", "Left", "ShiftTab", "Tab", "Enter", "Esc",
         "CtrlC", "q"}

\* The further keys the text and list branches distinguish: the printable
\* 'Q' and 'x', Backspace (127 or 8) and Delete (ESC [ 3 ~).
WideKeys == Keys \cup {"Q", "x", "Backspace", "Delete"}

\* n == 1 && key[0] >= 32 && key[0] < 127
isPrintable(key) == key \in {"q", "Q", "x"}

\* What one pass of the loop body decides: the heap after the key, and the
\* loopNeedsRender and loopShouldQuit flags.
Handled(s, render, quit, ran) ==
    [s |-> s, render |-> render, quit |-> quit, calls |-> ran]

\* The branch "focusedMenuBar != nil && focusedMenuBar.IsActive".
MenuBarKeys(s, mb, key, ret) ==
    CASE key = "Up"       -> Handled(MenuBar_MoveUp(s, mb), TRUE, FALSE, << >>)
      [] key = "Down"     -> Handled(MenuBar_MoveDown(s, mb), TRUE, FALSE, << >>)
      [] key = "Right"    -> Handled(MenuBar_MoveRight(s, mb), TRUE, FALSE, << >>)
      [] key = "Left"     -> Handled(MenuBar_MoveLeft(s, mb), TRUE, FALSE, << >>)
      [] key = "ShiftTab" -> Handled(setFocus(s, s.focusedIndex - 1), TRUE, FALSE, << >>)
      [] key = "Tab"      -> Handled(setFocus(s, s.focusedIndex + 1), TRUE, FALSE, << >>)
      [] key = "Enter"    -> LET r == MenuBar_ActivateSelected(s, mb, ret)
                             IN Handled(r.s, TRUE, r.result, r.calls)
      [] key = "Esc"      -> Handled(MenuBar_Deactivate(s, mb), TRUE, FALSE, << >>)
      [] key = "CtrlC"    -> Handled(s, FALSE, TRUE, << >>)
      [] OTHER            -> Handled(s, FALSE, FALSE, << >>)

\* Mutant of the Prompt branch: Tab selects the next button of every prompt,
\* modal or not.
PromptKeys_TabSelects(s, p, key, ret) ==
    CASE key = "Right"    -> Handled(Prompt_SelectNext(s, p), TRUE, FALSE, << >>)
      [] key = "Left"     -> Handled(Prompt_SelectPrevious(s, p), TRUE, FALSE, << >>)
      [] key = "ShiftTab" -> IF ~Prompt_IsModal(s, p)
                             THEN Handled(setFocus(s, s.focusedIndex - 1), TRUE, FALSE, << >>)
                             ELSE Handled(s, FALSE, FALSE, << >>)
      [] key = "Tab"      -> Handled(Prompt_SelectNext(s, p), TRUE, FALSE, << >>)
      [] key = "Enter"    -> LET r == Prompt_ActivateSelected(s, p, ret)
                             IN Handled(r.s, TRUE, r.result, r.calls)
      [] key = "Esc"      -> IF ~Prompt_IsModal(s, p)
                             THEN LET a == Prompt_SetActive(s, p, FALSE)
                                  IN Handled(setFocus(a, a.focusedIndex + 1), TRUE, FALSE, << >>)
                             ELSE Handled(s, FALSE, FALSE, << >>)
      [] key = "CtrlC"    -> Handled(s, FALSE, TRUE, << >>)
      [] OTHER            -> Handled(s, FALSE, FALSE, << >>)

\* The branch "focusedPrompt != nil && focusedPrompt.IsActive".
PromptKeys(s, p, key, ret) ==
    CASE key = "Right"    -> Handled(Prompt_SelectNext(s, p), TRUE, FALSE, << >>)
      [] key = "Left"     -> Handled(Prompt_SelectPrevious(s, p), TRUE, FALSE, << >>)
      [] key = "ShiftTab" -> IF ~Prompt_IsModal(s, p)
                             THEN Handled(setFocus(s, s.focusedIndex - 1), TRUE, FALSE, << >>)
                             ELSE Handled(s, FALSE, FALSE, << >>)
      [] key = "Tab"      -> IF Prompt_IsModal(s, p)
                             THEN Handled(Prompt_SelectNext(s, p), TRUE, FALSE, << >>)
                             ELSE Handled(setFocus(s, s.focusedIndex + 1), TRUE, FALSE, << >>)
      [] key = "Enter"    -> LET r == Prompt_ActivateSelected(s, p, ret)
                             IN Handled(r.s, TRUE, r.result, r.calls)
      [] key = "Esc"      -> IF ~Prompt_IsModal(s, p)
                             THEN LET a == Prompt_SetActive(s, p, FALSE)
                                  IN Handled(setFocus(a, a.focusedIndex + 1), TRUE, FALSE, << >>)
                             ELSE Handled(s, FALSE, FALSE, << >>)
      [] key = "CtrlC"    -> Handled(s, FALSE, TRUE, << >>)
      [] OTHER            -> Handled(s, FALSE, FALSE, << >>)

\* Mutant of the TextArea branch: 'q' and 'Q' quit as in the other branches.
TextAreaKeys_QuitKey(s, key) ==
    CASE key \in {"q", "Q"} -> Handled(s, FALSE, TRUE, << >>)
      [] isPrintable(key)   -> Handled(TextArea_InsertChar(s, key), TRUE, FALSE, << >>)
      [] key = "Backspace"  -> Handled(TextArea_DeleteChar(s), TRUE, FALSE, << >>)
      [] key = "Tab"        -> Handled(setFocus(s, s.focusedIndex + 1), TRUE, FALSE, << >>)
      [] key = "Enter"      -> Handled(TextArea_InsertChar(s, LF), TRUE, FALSE, << >>)
      [] key = "CtrlC"      -> Handled(s, FALSE, TRUE, << >>)
      [] key = "Left"       -> Handled(TextArea_MoveCursorLeft(s), TRUE, FALSE, << >>)
      [] key = "Right"      -> Handled(TextArea_MoveCursorRight(s), TRUE, FALSE, << >>)
      [] key = "Up"         -> Handled(TextArea_MoveCursorUp(s), TRUE, FALSE, << >>)
      [] key = "Down"       -> Handled(TextArea_MoveCursorDown(s), TRUE, FALSE, << >>)
      [] key = "ShiftTab"   -> Handled(setFocus(s, s.focusedIndex - 1), TRUE, FALSE, << >>)
      [] key = "Delete"     -> Handled(TextArea_DeleteForward(s), TRUE, FALSE, << >>)
      [] OTHER              -> Handled(s, FALSE, FALSE, << >>)

\* The branch "focusedTextArea != nil && focusedTextArea.IsActive".
TextAreaKeys(s, key) ==
    CASE isPrintable(key)   -> Handled(TextArea_InsertChar(s, key), TRUE, FALSE, << >>)
      [] key = "Backspace"  -> Handled(TextArea_DeleteChar(s), TRUE, FALSE, << >>)
      [] key = "Tab"        -> Handled(setFocus(s, s.focusedIndex + 1), TRUE, FALSE, << >>)
      [] key = "Enter"      -> Handled(TextArea_InsertChar(s, LF), TRUE, FALSE, << >>)
      [] key = "CtrlC"      -> Handled(s, FALSE, TRUE, << >>)
      [] key = "Left"       -> Handled(TextArea_MoveCursorLeft(s), TRUE, FALSE, << >>)
      [] key = "Right"      -> Handled(TextArea_MoveCursorRight(s), TRUE, FALSE, << >>)
      [] key = "Up"         -> Handled(TextArea_MoveCursorUp(s), TRUE, FALSE, << >>)
      [] key = "Down"       -> Handled(TextArea_MoveCursorDown(s), TRUE, FALSE, << >>)
      [] key = "ShiftTab"   -> Handled(setFocus(s, s.focusedIndex - 1), TRUE, FALSE, << >>)
      [] key = "Delete"     -> Handled(TextArea_DeleteForward(s), TRUE, FALSE, << >>)
      [] OTHER              -> Handled(s, FALSE, FALSE, << >>)

\* Mutant of the insertion into the TextBox: the default text of a pristine
\* box is kept.
TextBox_insert_KeepsDefault(s, c) ==
    LET a == [s EXCEPT !.tbox.IsPristine = FALSE]
    IN [a EXCEPT !.tbox.Text = SubSeq(@, 1, a.tbox.CursorPos) \o << c >>
                                   \o SubSeq(@, a.tbox.CursorPos + 1, Len(@)),
                 !.tbox.CursorPos = @ + 1]

\* focusedTextBox.Text[:CursorPos] + string(key[0]) + focusedTextBox.Text[CursorPos:]
TextBox_insert(s, c) ==
    LET a == IF s.tbox.IsPristine
             THEN [s EXCEPT !.tbox = [Text |-> << >>, CursorPos |-> 0,
                                      IsPristine |-> FALSE]]
             ELSE s
    IN [a EXCEPT !.tbox.Text = SubSeq(@, 1, a.tbox.CursorPos) \o << c >>
                                   \o SubSeq(@, a.tbox.CursorPos + 1, Len(@)),
                 !.tbox.CursorPos = @ + 1]

\* The branch "focusedTextBox != nil && focusedTextBox.IsActive".
TextBoxKeys(s, key) ==
    CASE isPrintable(key)  -> Handled(TextBox_insert(s, key), TRUE, FALSE, << >>)
      [] key = "Backspace" ->
            IF s.tbox.CursorPos > 0
            THEN Handled([s EXCEPT
                            !.tbox.Text = SubSeq(@, 1, s.tbox.CursorPos - 1)
                                            \o SubSeq(@, s.tbox.CursorPos + 1, Len(@)),
                            !.tbox.CursorPos = @ - 1,
                            !.tbox.IsPristine = FALSE],
                         TRUE, FALSE, << >>)
            ELSE Handled(s, FALSE, FALSE, << >>)
      [] key = "Tab"       -> Handled(setFocus(s, s.focusedIndex + 1), TRUE, FALSE, << >>)
      [] key = "Enter"     -> Handled(setFocus(s, s.focusedIndex + 1), TRUE, FALSE, << >>)
      [] key = "CtrlC"     -> Handled(s, FALSE, TRUE, << >>)
      [] key = "Left"      ->
            IF s.tbox.CursorPos > 0
            THEN Handled([s EXCEPT !.tbox.CursorPos = @ - 1,
                                   !.tbox.IsPristine = FALSE], TRUE, FALSE, << >>)
            ELSE Handled(s, FALSE, FALSE, << >>)
      [] key = "Right"     ->
            IF s.tbox.CursorPos < Len(s.tbox.Text)
            THEN Handled([s EXCEPT !.tbox.CursorPos = @ + 1,
                                   !.tbox.IsPristine = FALSE], TRUE, FALSE, << >>)
            ELSE Handled(s, FALSE, FALSE, << >>)
      [] key = "ShiftTab"  -> Handled(setFocus(s, s.focusedIndex - 1), TRUE, FALSE, << >>)
      [] key = "Delete"    ->
            IF s.tbox.CursorPos < Len(s.tbox.Text)
            THEN Handled([s EXCEPT
                            !.tbox.Text = SubSeq(@, 1, s.tbox.CursorPos)
                                            \o SubSeq(@, s.tbox.CursorPos + 2, Len(@)),
                            !.tbox.IsPristine = FALSE],
                         TRUE, FALSE, << >>)
            ELSE Handled(s, FALSE, FALSE, << >>)
      [] OTHER             -> Handled(s, FALSE, FALSE, << >>)

\* Mutant of the Container branch: Ctrl-C is not a quit key.
ContainerKeys_NoCtrlC(s, key) ==
    CASE key = "Up"       -> Handled(Container_HighlightPrevious(s), TRUE, FALSE, << >>)
      [] key = "Down"     -> Handled(Container_HighlightNext(s), TRUE, FALSE, << >>)
      [] key = "ShiftTab" -> Handled(setFocus(s, s.focusedIndex - 1), TRUE, FALSE, << >>)
      [] key = "Tab"      -> Handled(setFocus(s, s.focusedIndex + 1), TRUE, FALSE, << >>)
      [] key = "Enter"    ->
            Handled(s, TRUE, FALSE,
                    IF s.cont.SelectedIndex >= 0
                    THEN << << "OnItemSelected", "ct", s.cont.SelectedIndex >> >>
                    ELSE << >>)
      [] key \in {"q", "Q"} -> Handled(s, FALSE, TRUE, << >>)
      [] OTHER            -> Handled(s, FALSE, FALSE, << >>)

\* The branch "focusedContainer != nil && focusedContainer.IsActive".  The
\* Container of the model has an OnItemSelected callback.
ContainerKeys(s, key) ==
    CASE key = "Up"       -> Handled(Container_HighlightPrevious(s), TRUE, FALSE, << >>)
      [] key = "Down"     -> Handled(Container_HighlightNext(s), TRUE, FALSE, << >>)
      [] key = "ShiftTab" -> Handled(setFocus(s, s.focusedIndex - 1), TRUE, FALSE, << >>)
      [] key = "Tab"      -> Handled(setFocus(s, s.focusedIndex + 1), TRUE, FALSE, << >>)
      [] key = "Enter"    ->
            Handled(s, TRUE, FALSE,
                    IF s.cont.SelectedIndex >= 0
                    THEN << << "OnItemSelected", "ct", s.cont.SelectedIndex >> >>
                    ELSE << >>)
      [] key = "CtrlC"    -> Handled(s, FALSE, TRUE, << >>)
      [] key \in {"q", "Q"} -> Handled(s, FALSE, TRUE, << >>)
      [] OTHER            -> Handled(s, FALSE, FALSE, << >>)

\* Mutant of the ScrollBar branch: Up scrolls down and Down scrolls up.
ScrollBarKeys_Swapped(s, b, key) ==
    CASE key = "Up" ->
            IF s.sbar[b].Visible
            THEN Handled(ScrollBar_SetValue(s, b, s.sbar[b].Value + 1), TRUE, FALSE, << >>)
            ELSE Handled(s, FALSE, FALSE, << >>)
      [] key = "Down" ->
            IF s.sbar[b].Visible
            THEN Handled(ScrollBar_SetValue(s, b, s.sbar[b].Value - 1), TRUE, FALSE, << >>)
            ELSE Handled(s, FALSE, FALSE, << >>)
      [] key = "ShiftTab" -> Handled(setFocus(s, s.focusedIndex - 1), TRUE, FALSE, << >>)
      [] key = "Tab"      -> Handled(setFocus(s, s.focusedIndex + 1), TRUE, FALSE, << >>)
      [] key = "Enter"    -> Handled(setFocus(s, s.focusedIndex + 1), TRUE, FALSE, << >>)
      [] key = "CtrlC"    -> Handled(s, FALSE, TRUE, << >>)
      [] key \in {"q", "Q"} -> Handled(s, FALSE, TRUE, << >>)
      [] OTHER            -> Handled(s, FALSE, FALSE, << >>)

\* The branch "focusedScrollBar != nil && focusedScrollBar.IsActive".
ScrollBarKeys(s, b, key) ==
    CASE key = "Up" ->
            IF s.sbar[b].Visible
            THEN Handled(ScrollBar_SetValue(s, b, s.sbar[b].Value - 1), TRUE, FALSE, << >>)
            ELSE Handled(s, FALSE, FALSE, << >>)
      [] key = "Down" ->
            IF s.sbar[b].Visible
            THEN Handled(ScrollBar_SetValue(s, b, s.sbar[b].Value + 1), TRUE, FALSE, << >>)
            ELSE Handled(s, FALSE, FALSE, << >>)
      [] key = "ShiftTab" -> Handled(setFocus(s, s.focusedIndex - 1), TRUE, FALSE, << >>)
      [] key = "Tab"      -> Handled(setFocus(s, s.focusedIndex + 1), TRUE, FALSE, << >>)
      [] key = "Enter"    -> Handled(setFocus(s, s.focusedIndex + 1), TRUE, FALSE, << >>)
      [] key = "CtrlC"    -> Handled(s, FALSE, TRUE, << >>)
      [] key \in {"q", "Q"} -> Handled(s, FALSE, TRUE, << >>)
      [] OTHER            -> Handled(s, FALSE, FALSE, << >>)

\* The position of the RadioButton "rb" in rg.Buttons (targetIndex).
RadioIndex(e) == 1

\* term.Restore(fd, oldState) and term.MakeRaw(fd), the latter when it
\* succeeds.
term_Restore(s) == [s EXCEPT !.termRaw = FALSE]
term_MakeRaw(s) == [s EXCEPT !.termRaw = TRUE]

\* The entry of calls for btn.Action(): its last component is the terminal
\* mode the action runs in, 0 for cooked and 1 for raw.
ButtonCall(s, b) == << "Button", b, IF s.termRaw THEN 1 ELSE 0 >>

\* Mutant of Enter on a Button: a failed term.MakeRaw is ignored and the loop
\* goes on.
Button_Enter_IgnoresRawError(s, b, ret, rawOk) ==
    LET cooked == term_Restore(s)
    IN IF ret
       THEN Handled(cooked, FALSE, TRUE, << ButtonCall(cooked, b) >>)
       ELSE IF rawOk
       THEN Handled(term_MakeRaw(cooked), TRUE, FALSE, << ButtonCall(cooked, b) >>)
       ELSE Handled(cooked, TRUE, FALSE, << ButtonCall(cooked, b) >>)

\* Enter on an active Button that has an Action: the terminal state is
\* restored, the action runs (ret: it asks to quit), and unless it asked to
\* quit raw mode is entered again (rawOk: term.MakeRaw succeeds); the loop
\* quits if the action asked for it or raw mode could not be entered, and
\* re-renders otherwise.
Button_Enter(s, b, ret, rawOk) ==
    LET cooked == term_Restore(s)
    IN IF ret
       THEN Handled(cooked, FALSE, TRUE, << ButtonCall(cooked, b) >>)
       ELSE IF rawOk
       THEN Handled(term_MakeRaw(cooked), TRUE, FALSE, << ButtonCall(cooked, b) >>)
       ELSE Handled(cooked, FALSE, TRUE, << ButtonCall(cooked, b) >>)

\* The final else branch: no MenuBar, Prompt, TextArea, TextBox, Container or
\* ScrollBar is focused and active.  ret is what the Button's Action returns,
\* rawOk whether term.MakeRaw succeeds after it.  Every Button of the model
\* has an Action; it runs with the terminal restored.
DefaultKeys(s, key, ret, rawOk) ==
    CASE key = "Tab" ->
            IF ChainLen(s) > 0
            THEN Handled(setFocus(s, s.focusedIndex + 1), TRUE, FALSE, << >>)
            ELSE Handled(s, FALSE, FALSE, << >>)
      [] key = "Enter" ->
            IF HasFocus(s) /\ Kind(Focused(s)) = "Button" /\ s.IsActive[Focused(s)]
            THEN Button_Enter(s, Focused(s), ret, rawOk)
            ELSE IF HasFocus(s) /\ Kind(Focused(s)) = "CheckBox" /\ s.IsActive[Focused(s)]
            THEN Handled([s EXCEPT !.Checked = ~@], TRUE, FALSE, << >>)
            ELSE IF HasFocus(s) /\ Kind(Focused(s)) = "RadioButton" /\ s.IsActive[Focused(s)]
            THEN Handled(RadioGroup_Select(s, RadioIndex(Focused(s))), TRUE, FALSE, << >>)
            ELSE Handled(setFocus(s, s.focusedIndex + 1), TRUE, FALSE, << >>)
      [] key \in {"q", "Q"} -> Handled(s, FALSE, TRUE, << >>)
      [] key = "CtrlC" -> Handled(s, FALSE, TRUE, << >>)
      [] key = "ShiftTab" ->
            IF ChainLen(s) > 0
            THEN Handled(setFocus(s, s.focusedIndex - 1), TRUE, FALSE, << >>)
            ELSE Handled(s, FALSE, FALSE, << >>)
      [] OTHER -> Handled(s, FALSE, FALSE, << >>)

\* The focused element is of the given kind and active.
FocusedIs(s, kind) ==
    HasFocus(s) /\ Kind(Focused(s)) = kind /\ s.IsActive[Focused(s)]

\* The built-in key handling of one loop pass, in its priority order.
HandleKey(s, key, ret, rawOk) ==
    IF FocusedIs(s, "MenuBar") THEN MenuBarKeys(s, Focused(s), key, ret)
    ELSE IF FocusedIs(s, "Prompt") THEN PromptKeys(s, Focused(s), key, ret)
    ELSE IF FocusedIs(s, "TextArea") THEN TextAreaKeys(s, key)
    ELSE IF FocusedIs(s, "TextBox") THEN TextBoxKeys(s, key)
    ELSE IF FocusedIs(s, "Container") THEN ContainerKeys(s, key)
    ELSE IF FocusedIs(s, "ScrollBar") THEN ScrollBarKeys(s, Focused(s), key)
    ELSE DefaultKeys(s, key, ret, rawOk)

\* ---------------------------------------------------------------- actions
\* The last operation and its inputs.  For a key: target is the focused
\* element if it is active (the element whose branch of the dispatcher gets the
\* key), "" if there is none; level is the menu level an active MenuBar routes
\* the key to ("top" or its ActiveMenu), "" for any other target; handled,
\* hRender and hQuit are what the custom key handler returned, if one is
\* installed; rendered is whether the pass ended with w.Render().  text is the
\* argument of SetText.  before is, for an InsertChar on the edited TextArea,
\* its lines, cursor line, cursor column and character count before the call,
\* and for a DeleteChar that directly follows such an InsertChar, the same.
NoEvent == [op |-> "none", key |-> "", elem |-> "", index |-> 0,
            ret |-> FALSE, rawOk |-> TRUE, target |-> "", level |-> "",
            handled |-> FALSE, hRender |-> FALSE, hQuit |-> FALSE,
            rendered |-> FALSE, text |-> << >>, before |-> << >>]

\* The focused element, if it is active.
KeyTarget(s) ==
    IF HasFocus(s) /\ s.IsActive[Focused(s)] THEN Focused(s) ELSE ""

\* Where an active MenuBar routes the key of this pass inside its tree.
KeyLevel(s) ==
    IF HasFocus(s) /\ Kind(Focused(s)) = "MenuBar" /\ s.IsActive[Focused(s)]
    THEN (IF s.ActiveMenu = NoMenu THEN TopMenu ELSE s.ActiveMenu)
    ELSE ""

\* ------------------------------------------------- the widgets of a window
\* The height and the number of rows of the window's Container, the
\* MaxValue of its directly added ScrollBar, and the size of its TextArea.
WinContainerHeight == 2
WinContainerRows == 3
WinScrollMax == 2
WinTextAreaWidth == 3
WinTextAreaHeight == 2

\* A heap before any constructor ran.
EmptyHeap ==
    [ Elements          |-> << >>,
      focusableElements |-> << >>,
      focusedIndex      |-> -1,
      IsActive          |-> [e \in AllIds |-> FALSE],
      pSelectedIdx      |-> [p \in PromptIds |-> 0],
      pButtonActive     |-> [p \in PromptIds |-> [i \in 0..(NumButtons(p) - 1) |-> FALSE]],
      mSelectedIdx      |-> [m \in MenuIds |-> -1],
      mIsOpen           |-> [m \in MenuIds |-> IsTopLevel(m)],
      mItemActive       |-> [m \in MenuIds |-> [i \in 0..(NumItems(m) - 1) |-> FALSE]],
      ActiveMenu        |-> NoMenu,
      sbar              |-> [b \in ScrollBarIds |-> NewScrollBar(0, 0)],
      cont              |-> [Height |-> 1],
      tarea             |-> [viewTopLine |-> 0],
      tbox              |-> NewTextBox(<< "x" >>),
      Checked           |-> FALSE,
      rg                |-> NewRadioGroup,
      termRaw           |-> FALSE,
      cursorShown       |-> TRUE,
      cursorAt          |-> "",
      Title             |-> << "i", " ", "t" >>,
      Width             |-> 10,
      topBorder         |-> NoTop,
      trace             |-> << >> ]

\* The widgets as the application constructs them before it adds them to a
\* window: NewContainer, NewTextArea, and a ScrollBar that it made visible.
WidgetHeap ==
    LET a == NewContainer(EmptyHeap, WinContainerHeight, Rows(WinContainerRows))
        b == NewTextArea(a, << >>, WinTextAreaWidth, WinTextAreaHeight, 0)
    IN [b EXCEPT !.sbar["sb"] =
                     [NewScrollBar(0, WinScrollMax) EXCEPT !.Visible = TRUE],
                 !.trace = << >>]

\* The state in which the heap is s, no key handler is installed, the
\* terminal is cooked and WindowActions has not been entered.
InitFrom(s) ==
    /\ Elements = s.Elements
    /\ focusableElements = s.focusableElements
    /\ focusedIndex = s.focusedIndex
    /\ IsActive = s.IsActive
    /\ pSelectedIdx = s.pSelectedIdx
    /\ pButtonActive = s.pButtonActive
    /\ mSelectedIdx = s.mSelectedIdx
    /\ mIsOpen = s.mIsOpen
    /\ mItemActive = s.mItemActive
    /\ ActiveMenu = s.ActiveMenu
    /\ sbar = s.sbar
    /\ cont = s.cont
    /\ tarea = s.tarea
    /\ tbox = s.tbox
    /\ Checked = s.Checked
    /\ rg = s.rg
    /\ KeyHandler = FALSE
    /\ termRaw = s.termRaw
    /\ cursorShown = s.cursorShown
    /\ cursorAt = s.cursorAt
    /\ Title = s.Title
    /\ Width = s.Width
    /\ topBorder = s.topBorder
    /\ loop = "setup"
    /\ frame = << >>
    /\ calls = << >>

\* NewWindow, with the elements constructed and not yet added.
Init ==
    /\ InitFrom(WidgetHeap)
    /\ ev = NoEvent

\* w.AddElement(element)
DoAddElement ==
    \E element \in ElemIds :
        /\ loop # "quit"
        /\ Len(Elements) < MaxElems
        /\ Store(AddElement(Heap, element))
        /\ ev' = [NoEvent EXCEPT !.op = "AddElement", !.elem = element]
        /\ calls' = << >>
        /\ frame' = << >>
        /\ UNCHANGED << loop, KeyHandler >>

\* w.setFocus(newIndex), called with any index
DoSetFocus ==
    \E newIndex \in (0 - FocusSlack)..(Len(focusableElements) + FocusSlack - 1) :
        /\ loop # "quit"
        /\ Store(setFocus(Heap, newIndex))
        /\ ev' = [NoEvent EXCEPT !.op = "setFocus", !.index = newIndex]
        /\ calls' = << >>
        /\ frame' = << >>
        /\ UNCHANGED << loop, KeyHandler >>

\* Mutant of the exit of WindowActions: the terminal is not restored.
Cleanup_NoRestore(s) == [s EXCEPT !.cursorShown = TRUE]

\* The exit of WindowActions once the terminal state was captured: the screen
\* is cleared, the cursor shown, and the deferred calls show the cursor and
\* restore the terminal state.
Cleanup(s) == [s EXCEPT !.termRaw = FALSE, !.cursorShown = TRUE]

\* Entry of WindowActions: the terminal state is captured, then raw mode is
\* entered (rawOk: term.MakeRaw succeeds), then the initial w.Render().
StartLoop ==
    \E rawOk \in BOOLEAN :
        /\ loop = "setup"
        /\ loop' = IF rawOk THEN "running" ELSE "quit"
        /\ Store(IF rawOk THEN Render([Heap EXCEPT !.termRaw = TRUE])
                          ELSE Cleanup(Heap))
        /\ frame' = IF rawOk THEN getSortedElements(Heap) ELSE << >>
        /\ ev' = [NoEvent EXCEPT !.op = "start", !.rawOk = rawOk]
        /\ calls' = << >>
        /\ UNCHANGED KeyHandler

\* Mutant of the loop pass: the render and quit flags of a custom key handler
\* count although it reported handled = false.
LoopPass_FlagsLeak(key, ret, rawOk, handled, hRender, hQuit) ==
    /\ loop = "running"
    /\ \E b \in {HandleKey(Heap, key, ret, rawOk)} :
       \E h \in {IF KeyHandler /\ handled
                 THEN Handled(Heap, hRender, hQuit, << >>)
                 ELSE [b EXCEPT !.render = @ \/ hRender, !.quit = @ \/ hQuit]} :
          /\ Store(IF h.quit THEN Cleanup(h.s)
                   ELSE IF h.render THEN Render(h.s)
                   ELSE h.s)
          /\ calls' = (IF KeyHandler THEN << << "HandleKeyStroke", key, 0 >> >>
                                     ELSE << >>) \o h.calls \o h.s.trace
          /\ loop' = IF h.quit THEN "quit" ELSE "running"
          /\ frame' = IF ~h.quit /\ h.render
                      THEN getSortedElements(h.s)
                      ELSE << >>
          /\ ev' = [NoEvent EXCEPT !.op = "key", !.key = key, !.ret = ret,
                                   !.rawOk = rawOk, !.target = KeyTarget(Heap),
                                   !.level = KeyLevel(Heap), !.handled = handled,
                                   !.hRender = hRender, !.hQuit = hQuit,
                                   !.rendered = ~h.quit /\ h.render]
    /\ UNCHANGED KeyHandler

\* One pass of the loop of WindowActions for a key that was read: the custom
\* key handler if one is installed, else or if it declines the built-in
\* handling, then quit or re-render.
LoopPass(key, ret, rawOk, handled, hRender, hQuit) ==
    /\ loop = "running"
    /\ \E h \in {IF KeyHandler /\ handled
                 THEN Handled(Heap, hRender, hQuit, << >>)
                 ELSE HandleKey(Heap, key, ret, rawOk)} :
          /\ Store(IF h.quit THEN Cleanup(h.s)
                   ELSE IF h.render THEN Render(h.s)
                   ELSE h.s)
          /\ calls' = (IF KeyHandler THEN << << "HandleKeyStroke", key, 0 >> >>
                                     ELSE << >>) \o h.calls \o h.s.trace
          /\ loop' = IF h.quit THEN "quit" ELSE "running"
          /\ frame' = IF ~h.quit /\ h.render
                      THEN getSortedElements(h.s)
                      ELSE << >>
          /\ ev' = [NoEvent EXCEPT !.op = "key", !.key = key, !.ret = ret,
                                   !.rawOk = rawOk, !.target = KeyTarget(Heap),
                                   !.level = KeyLevel(Heap), !.handled = handled,
                                   !.hRender = hRender, !.hQuit = hQuit,
                                   !.rendered = ~h.quit /\ h.render]
    /\ UNCHANGED KeyHandler

\* One pass of the loop of WindowActions: read a key, handle it, then quit
\* or re-render.
KeyEvent ==
    \E key \in Keys, ret \in BOOLEAN, rawOk \in BOOLEAN :
        /\ key # "Enter" => (~ret /\ rawOk)
        /\ LoopPass(key, ret, rawOk, FALSE, FALSE, FALSE)

\* mb.SelectNext(), called by the application
DoMenuBarSelectNext ==
    /\ loop # "quit"
    /\ Store(MenuBar_SelectNext(Heap, "mb"))
    /\ ev' = [NoEvent EXCEPT !.op = "SelectNext", !.elem = "mb"]
    /\ calls' = << >>
    /\ frame' = << >>
    /\ UNCHANGED << loop, KeyHandler >>

\* mb.SelectPrevious(), called by the application
DoMenuBarSelectPrevious ==
    /\ loop # "quit"
    /\ Store(MenuBar_SelectPrevious(Heap, "mb"))
    /\ ev' = [NoEvent EXCEPT !.op = "SelectPrevious", !.elem = "mb"]
    /\ calls' = << >>
    /\ frame' = << >>
    /\ UNCHANGED << loop, KeyHandler >>

Next ==
    \/ DoAddElement
    \/ DoSetFocus
    \/ StartLoop
    \/ KeyEvent
    \/ DoMenuBarSelectNext
    \/ DoMenuBarSelectPrevious

Spec == Init /\ [][Next]_vars

\* --------------------------------------------- the Container on its own
\* NewContainer with any height and any number of rows.  ev.index counts the
\* HighlightNext calls made since, as long as nothing else was called; it is
\* -1 after any other call.
InitContainer ==
    \E n \in 0..MaxRows, height \in 0..MaxHeight :
        /\ InitFrom(NewContainer(WidgetHeap, height, Rows(n)))
        /\ ev = [NoEvent EXCEPT !.op = "NewContainer"]

\* What a call on a widget leaves of the window and the loop.
WidgetCall(s) ==
    /\ \E h \in {s} :
          /\ Store(h)
          /\ calls' = h.trace
    /\ frame' = << >>
    /\ UNCHANGED << loop, KeyHandler >>

\* c.HighlightNext()
DoHighlightNext ==
    /\ ev.index < MaxNexts
    /\ WidgetCall(Container_HighlightNext(Heap))
    /\ ev' = [NoEvent EXCEPT !.op = "HighlightNext",
                             !.index = IF ev.index >= 0 THEN ev.index + 1 ELSE -1]

\* c.HighlightPrevious()
DoHighlightPrevious ==
    /\ WidgetCall(Container_HighlightPrevious(Heap))
    /\ ev' = [NoEvent EXCEPT !.op = "HighlightPrevious", !.index = -1]

\* c.SetContent(content), with content of any length
DoSetContent ==
    \E n \in 0..MaxRows :
        /\ WidgetCall(Container_SetContent(Heap, Rows(n)))
        /\ ev' = [NoEvent EXCEPT !.op = "SetContent", !.index = -1]

\* c.SelectHighlightedItem()
DoSelectHighlightedItem ==
    /\ WidgetCall(Container_SelectHighlightedItem(Heap))
    /\ ev' = [NoEvent EXCEPT !.op = "SelectHighlightedItem", !.index = -1]

\* c.ConfirmSelection()
DoConfirmSelection ==
    /\ WidgetCall(Container_ConfirmSelection(Heap))
    /\ ev' = [NoEvent EXCEPT !.op = "ConfirmSelection", !.index = -1]

\* c.ClearConfirmedSelection()
DoClearConfirmedSelection ==
    /\ WidgetCall(Container_ClearConfirmedSelection(Heap))
    /\ ev' = [NoEvent EXCEPT !.op = "ClearConfirmedSelection", !.index = -1]

NextContainer ==
    \/ DoHighlightNext
    \/ DoHighlightPrevious
    \/ DoSetContent
    \/ DoSelectHighlightedItem
    \/ DoConfirmSelection
    \/ DoClearConfirmedSelection

SpecContainer == InitContainer /\ [][NextContainer]_vars

\* ------------------------------- a ScrollBar and a RadioGroup on their own
\* NewScrollBar with any value and maxValue, and a RadioGroup of NumRadio
\* buttons.
InitWidgets ==
    \E value \in (0 - ScrollSlack)..(MaxScroll + ScrollSlack),
       maxValue \in (0 - ScrollSlack)..MaxScroll :
        /\ InitFrom([WidgetHeap EXCEPT !.sbar["sb"] = NewScrollBar(value, maxValue)])
        /\ ev = [NoEvent EXCEPT !.op = "NewScrollBar", !.index = value]

\* sb.SetValue(value), called with any integer
DoSetValue ==
    \E value \in (0 - ScrollSlack)..(MaxScroll + ScrollSlack) :
        /\ WidgetCall(ScrollBar_SetValue(Heap, "sb", value))
        /\ ev' = [NoEvent EXCEPT !.op = "SetValue", !.index = value]

\* rg.Select(selectedIndex), called with any integer
DoSelect ==
    \E selectedIndex \in (0 - RadioSlack)..(NumRadio + RadioSlack - 1) :
        /\ WidgetCall(RadioGroup_Select(Heap, selectedIndex))
        /\ ev' = [NoEvent EXCEPT !.op = "Select", !.index = selectedIndex]

NextWidgets ==
    \/ DoSetValue
    \/ DoSelect

SpecWidgets == InitWidgets /\ [][NextWidgets]_vars

\* ------------------------------------------------ the TextArea on its own
\* The characters a text is made of, and the texts of at most n characters.
TextChars == {"a", CR, LF}
Texts(n) == UNION {[1..k -> TextChars] : k \in 0..n}

\* NewTextArea with no text and unlimited length, two or three rows high,
\* holding the focus.
InitText ==
    \E height \in WinTextAreaHeight..(WinTextAreaHeight + 1) :
        /\ InitFrom([NewTextArea(WidgetHeap, << >>, WinTextAreaWidth, height, 0)
                        EXCEPT !.IsActive["ta"] = TRUE, !.trace = << >>])
        /\ ev = [NoEvent EXCEPT !.op = "NewTextArea"]

\* ta.SetText(text)
DoSetText ==
    \E text \in Texts(MaxLen) :
        /\ WidgetCall(TextArea_SetText(Heap, text))
        /\ ev' = [NoEvent EXCEPT !.op = "SetText", !.text = text]

\* ta.InsertChar(r), while the text is shorter than MaxLen
DoInsertChar ==
    \E r \in {"a", LF} :
        /\ tarea.charCount < MaxLen
        /\ WidgetCall(TextArea_InsertChar(Heap, r))
        /\ ev' = [NoEvent EXCEPT !.op = "InsertChar", !.key = r]

NextText ==
    \/ DoSetText
    \/ DoInsertChar

SpecText == InitText /\ [][NextText]_vars

\* ------------------------------------- a window whose elements come and go
\* w.RemoveElement(element), for an element that was added or not
DoRemoveElement ==
    \E element \in ElemIds :
        /\ Store(RemoveElement(Heap, element))
        /\ ev' = [NoEvent EXCEPT !.op = "RemoveElement", !.elem = element]
        /\ calls' = << >>
        /\ frame' = << >>
        /\ UNCHANGED << loop, KeyHandler >>

NextRemove ==
    \/ DoAddElement
    \/ DoSetFocus
    \/ DoRemoveElement

SpecRemove == Init /\ [][NextRemove]_vars

\* --------------------------- a window of any elements, with a key handler
\* w.AddElement(element) before WindowActions, for any element or widget
DoAddElementW ==
    \E element \in ElemIds \cup WidgetIds :
        /\ loop = "setup"
        /\ Len(Elements) < MaxWide
        /\ Store(AddElement(Heap, element))
        /\ ev' = [NoEvent EXCEPT !.op = "AddElement", !.elem = element]
        /\ calls' = << >>
        /\ frame' = << >>
        /\ UNCHANGED << loop, KeyHandler >>

\* w.SetKeyStrokeHandler(handler) before WindowActions
DoSetKeyStrokeHandler ==
    /\ loop = "setup"
    /\ ~KeyHandler
    /\ KeyHandler' = TRUE
    /\ ev' = [NoEvent EXCEPT !.op = "SetKeyStrokeHandler"]
    /\ calls' = << >>
    /\ frame' = << >>
    /\ UNCHANGED << windowVars, widgetVars, termVars, titleVars, loop >>

\* The key of this pass would make the text of the focused TextArea or
\* TextBox longer than MaxText.
OverlongText(s, key) ==
    \/ /\ FocusedIs(s, "TextArea")
       /\ isPrintable(key) \/ key = "Enter"
       /\ s.tarea.charCount >= MaxText
    \/ /\ FocusedIs(s, "TextBox")
       /\ isPrintable(key)
       /\ ~s.tbox.IsPristine
       /\ Len(s.tbox.Text) >= MaxText

\* One pass of the loop for any key, with a custom key handler that returns
\* any (handled, render, quit) and leaves the window alone.  Text is typed
\* while it is shorter than MaxText.
KeyEventW ==
    \E key \in WideKeys, ret \in BOOLEAN, rawOk \in BOOLEAN,
       handled \in BOOLEAN, hRender \in BOOLEAN, hQuit \in BOOLEAN :
        /\ key # "Enter" => (~ret /\ rawOk)
        /\ ~KeyHandler => (~handled /\ ~hRender /\ ~hQuit)
        /\ ~OverlongText(Heap, key)
        /\ LoopPass(key, ret, rawOk, handled, hRender, hQuit)

\* os.Stdin.Read returns an error: the loop is left.
ReadError ==
    /\ loop = "running"
    /\ loop' = "quit"
    /\ Store(Cleanup(Heap))
    /\ ev' = [NoEvent EXCEPT !.op = "readError"]
    /\ calls' = << >>
    /\ frame' = << >>
    /\ UNCHANGED KeyHandler

NextW ==
    \/ DoAddElementW
    \/ DoSetKeyStrokeHandler
    \/ StartLoop
    \/ KeyEventW
    \/ ReadError

SpecW == Init /\ [][NextW]_vars

\* ------------------------------------------- frames and the terminal cursor
\* The elements of the window whose frames are examined for the cursor.
CursorIds == {"btn", "tb", "ta", "ct"}

\* w.AddElement(element) for a Button, the TextBox, the TextArea or the
\* Container
DoAddElementC ==
    \E element \in CursorIds :
        /\ Len(Elements) < MaxCursorElems
        /\ Store(AddElement(Heap, element))
        /\ ev' = [NoEvent EXCEPT !.op = "AddElement", !.elem = element]
        /\ calls' = << >>
        /\ frame' = << >>
        /\ UNCHANGED << loop, KeyHandler >>

\* The application assigns the exported field IsActive of an element it added.
DoSetActive ==
    \E k \in 1..Len(Elements), b \in BOOLEAN :
        /\ Store([Heap EXCEPT !.IsActive[Elements[k]] = b])
        /\ ev' = [NoEvent EXCEPT !.op = "SetActive", !.elem = Elements[k]]
        /\ calls' = << >>
        /\ frame' = << >>
        /\ UNCHANGED << loop, KeyHandler >>

\* w.Render()
DoRender ==
    /\ Store(Render(Heap))
    /\ frame' = IF RenderTop(Heap).panic THEN << >> ELSE getSortedElements(Heap)
    /\ ev' = [NoEvent EXCEPT !.op = "Render", !.rendered = TRUE]
    /\ calls' = << >>
    /\ UNCHANGED << loop, KeyHandler >>

NextCursor ==
    \/ DoAddElementC
    \/ DoSetActive
    \/ DoInsertChar
    \/ DoRender

SpecCursor == Init /\ [][NextCursor]_vars

\* --------------------------------------------------- the title of a frame
\* The characters of the titles: width-1 characters, all different.
Letters == << "a", "b", "c", "d", "e", "f", "g", "h", "i", "j", "k", "l", "m",
              "n", "o", "p", "q", "r", "s", "t" >>

\* NewWindow with a title (icon, space and text together) of any length
\* from 1, the space between an empty icon and an empty text, up to MaxTitle,
\* and any width up to MaxWidth.
InitTitle ==
    \E n \in 1..MaxTitle, width \in 0..MaxWidth :
        /\ InitFrom([WidgetHeap EXCEPT !.Title = SubSeq(Letters, 1, n),
                                       !.Width = width])
        /\ ev = NoEvent

NextTitle ==
    \/ DoRender

SpecTitle == InitTitle /\ [][NextTitle]_vars

\* ---------------------------------- a Container and a TextArea side by side
\* The largest height and number of rows of the Container, and the longest
\* text given to SetText.
ScrollHeight == 2
ScrollRows == 3
ScrollText == 3

\* NewContainer with at most ScrollRows rows and NewTextArea with no text, two
\* or three rows high and holding the focus.
InitScroll ==
    \E n \in 0..ScrollRows, height \in 0..ScrollHeight,
       taHeight \in WinTextAreaHeight..(WinTextAreaHeight + 1) :
        /\ InitFrom([NewTextArea(NewContainer(WidgetHeap, height, Rows(n)),
                                 << >>, WinTextAreaWidth, taHeight, 0)
                        EXCEPT !.IsActive["ta"] = TRUE, !.trace = << >>])
        /\ ev = [NoEvent EXCEPT !.op = "New", !.index = -1]

\* c.SetContent(content), with at most ScrollRows rows
DoSetContentShort ==
    \E n \in 0..ScrollRows :
        /\ WidgetCall(Container_SetContent(Heap, Rows(n)))
        /\ ev' = [NoEvent EXCEPT !.op = "SetContent", !.index = -1]

\* ta.SetText(text), with at most ScrollText characters
DoSetTextShort ==
    \E text \in Texts(ScrollText) :
        /\ WidgetCall(TextArea_SetText(Heap, text))
        /\ ev' = [NoEvent EXCEPT !.op = "SetText", !.text = text, !.index = -1]

\* ta.InsertChar(r), while the text is shorter than MaxLen
DoInsertCharS ==
    \E r \in {"a", LF} :
        /\ tarea.charCount < MaxLen
        /\ WidgetCall(TextArea_InsertChar(Heap, r))
        /\ ev' = [NoEvent EXCEPT !.op = "InsertChar", !.key = r, !.index = -1]

\* ta.DeleteChar()
DoDeleteChar ==
    /\ WidgetCall(TextArea_DeleteChar(Heap))
    /\ ev' = [NoEvent EXCEPT !.op = "DeleteChar", !.index = -1,
                             !.before = IF ev.op = "InsertChar"
                                        THEN ev.before ELSE << >>]

\* ta.DeleteForward()
DoDeleteForward ==
    /\ WidgetCall(TextArea_DeleteForward(Heap))
    /\ ev' = [NoEvent EXCEPT !.op = "DeleteForward", !.index = -1]

\* ta.MoveCursorUp()
DoMoveCursorUp ==
    /\ WidgetCall(TextArea_MoveCursorUp(Heap))
    /\ ev' = [NoEvent EXCEPT !.op = "MoveCursorUp", !.index = -1]

NextScroll ==
    \/ DoSetContentShort
    \/ DoHighlightNext
    \/ DoHighlightPrevious
    \/ DoSetTextShort
    \/ DoInsertCharS
    \/ DoDeleteChar
    \/ DoDeleteForward
    \/ DoMoveCursorUp

SpecScroll == InitScroll /\ [][NextScroll]_vars

\* ------------------------------- a window with a Container, added and removed
\* The elements given to AddElement and RemoveElement: a Button, the
\* Container, and the Container's internal ScrollBar, which the application
\* gets from GetScrollbar(); the most elements the window holds; and the keys
\* read by the loop.
ChainIds == {"btn", "ct", "csb"}
MaxChainElems == 3
ChainKeys == {"Up", "Down", "Tab", "ShiftTab", "Enter"}

\* w.AddElement(element) before WindowActions
DoAddElementCh ==
    \E element \in ChainIds :
        /\ loop = "setup"
        /\ Len(Elements) < MaxChainElems
        /\ Store(AddElement(Heap, element))
        /\ ev' = [NoEvent EXCEPT !.op = "AddElement", !.elem = element]
        /\ calls' = << >>
        /\ frame' = << >>
        /\ UNCHANGED << loop, KeyHandler >>

\* w.RemoveElement(element) before WindowActions
DoRemoveElementCh ==
    \E element \in ChainIds :
        /\ loop = "setup"
        /\ Store(RemoveElement(Heap, element))
        /\ ev' = [NoEvent EXCEPT !.op = "RemoveElement", !.elem = element]
        /\ calls' = << >>
        /\ frame' = << >>
        /\ UNCHANGED << loop, KeyHandler >>

\* One pass of the loop of WindowActions for an arrow or a focus key.
KeyEventCh ==
    \E key \in ChainKeys :
        LoopPass(key, FALSE, TRUE, FALSE, FALSE, FALSE)

NextChain ==
    \/ DoAddElementCh
    \/ DoRemoveElementCh
    \/ StartLoop
    \/ KeyEventCh
    \/ DoSelectHighlightedItem
    \/ DoClearConfirmedSelection

SpecChain == Init /\ [][NextChain]_vars

\* ----------------------------------------- the TextArea edited in every way
\* The largest max-character cap of the TextArea, and the largest line or
\* column delta given to MoveCursor.
MaxCap == 3
MaxDelta == 2

\* NewTextArea with no text, two or three rows high, without a cap (0) or with
\* a cap of up to MaxCap characters, holding the focus.
InitEdit ==
    \E height \in WinTextAreaHeight..(WinTextAreaHeight + 1), maxChars \in 0..MaxCap :
        /\ InitFrom([NewTextArea(WidgetHeap, << >>, WinTextAreaWidth, height, maxChars)
                        EXCEPT !.IsActive["ta"] = TRUE, !.trace = << >>])
        /\ ev = [NoEvent EXCEPT !.op = "NewTextArea"]

\* ta.InsertChar(r), while the text is shorter than MaxLen
DoInsertCharE ==
    \E r \in {"a", LF} :
        /\ tarea.charCount < MaxLen
        /\ WidgetCall(TextArea_InsertChar(Heap, r))
        /\ ev' = [NoEvent EXCEPT !.op = "InsertChar", !.key = r,
                                 !.before = << tarea.Lines, tarea.cursorLine,
                                               tarea.cursorCol,
                                               tarea.charCount >>]

\* ta.MoveCursorDown()
DoMoveCursorDown ==
    /\ WidgetCall(TextArea_MoveCursorDown(Heap))
    /\ ev' = [NoEvent EXCEPT !.op = "MoveCursorDown", !.index = -1]

\* ta.MoveCursorLeft()
DoMoveCursorLeft ==
    /\ WidgetCall(TextArea_MoveCursorLeft(Heap))
    /\ ev' = [NoEvent EXCEPT !.op = "MoveCursorLeft", !.index = -1]

\* ta.MoveCursorRight()
DoMoveCursorRight ==
    /\ WidgetCall(TextArea_MoveCursorRight(Heap))
    /\ ev' = [NoEvent EXCEPT !.op = "MoveCursorRight", !.index = -1]

\* ta.MoveCursor(deltaLine, deltaCol)
DoMoveCursor ==
    \E deltaLine \in (0 - MaxDelta)..MaxDelta, deltaCol \in (0 - MaxDelta)..MaxDelta :
        /\ WidgetCall(TextArea_MoveCursor(Heap, deltaLine, deltaCol))
        /\ ev' = [NoEvent EXCEPT !.op = "MoveCursor", !.index = -1]

NextEdit ==
    \/ DoInsertCharE
    \/ DoDeleteChar
    \/ DoDeleteForward
    \/ DoMoveCursorUp
    \/ DoMoveCursorDown
    \/ DoMoveCursorLeft
    \/ DoMoveCursorRight
    \/ DoMoveCursor
    \/ DoSetTextShort

SpecEdit == InitEdit /\ [][NextEdit]_vars

\* ================================================================= claims
\* The focus-chain positions (1-based) whose element has its active flag set.
ActivePositions ==
    {i \in 1..Len(focusableElements) : IsActive[focusableElements[i]]}

\* A focused element of the given kind exists and is active.
FocusedActive(kind) ==
    /\ HasFocus(Heap)
    /\ Kind(Focused(Heap)) = kind
    /\ IsActive[Focused(Heap)]

\* The step is one pass of the key loop for the given key.
KeyStep(key) == loop = "running" /\ ev'.op = "key" /\ ev'.key = key

\* The last operation was one pass of the key loop for the given key.
AfterKey(key) == ev.op = "key" /\ ev.key = key

\* C1: after a setFocus call with any index on a non-empty focus chain, the
\* focus index is in [0, length) and the entry at the focus index is the one
\* and only active entry.
C1_SetFocusExactlyOneActive ==
    (ev.op = "setFocus" /\ Len(focusableElements) > 0) =>
        /\ focusedIndex >= 0
        /\ focusedIndex < Len(focusableElements)
        /\ ActivePositions = {focusedIndex + 1}

\* A setFocus call with a negative index wrapped to the last of two entries.
C1_Witness ==
    /\ ev.op = "setFocus"
    /\ ev.index < 0
    /\ Len(focusableElements) = 2
    /\ focusedIndex = 1
    /\ ActivePositions = {2}

\* C2 as claimed: after any key event that does not end the loop, on a window
\* with a non-empty focus chain, the chain has exactly one active member.
C2_ExactlyOneActive ==
    (ev.op = "key" /\ loop = "running" /\ Len(focusableElements) > 0) =>
        Cardinality(ActivePositions) = 1

\* C2 as amended: the focus chain never has two active members, and an
\* active member is the focused one; it can have none.
C2_AtMostOneActive ==
    /\ Cardinality(ActivePositions) <= 1
    /\ \A i \in ActivePositions : i = focusedIndex + 1

\* Escape left the focused MenuBar inactive: a non-empty chain with no
\* active member.
C2_Witness ==
    /\ AfterKey("Esc")
    /\ ev.target = "mb"
    /\ loop = "running"
    /\ HasFocus(Heap)
    /\ Kind(Focused(Heap)) = "MenuBar"
    /\ ActivePositions = {}

\* The focused element is the prompt p, active, and p is modal / not modal.
PromptFocused(p, modal) ==
    /\ HasFocus(Heap)
    /\ Focused(Heap) = p
    /\ IsActive[p]
    /\ Modal(p) = modal

\* C3: Escape dispatched to a focused, active, modal Prompt changes neither
\* the focus index nor the prompt's active flag nor its selected button.
C3_ModalEscapeIgnored ==
    [][\A p \in PromptIds :
          (PromptFocused(p, TRUE) /\ KeyStep("Esc")) =>
              /\ focusedIndex' = focusedIndex
              /\ IsActive'[p]
              /\ pSelectedIdx'[p] = pSelectedIdx[p]
              /\ pButtonActive'[p] = pButtonActive[p]
              /\ loop' = "running"]_vars

\* Escape was the last key and the modal prompt, with its second button
\* selected, is still focused and active.
C3_Witness ==
    /\ AfterKey("Esc")
    /\ ev.target = "pm"
    /\ PromptFocused("pm", TRUE)
    /\ pSelectedIdx["pm"] = 1
    /\ loop = "running"

\* C4: while a modal Prompt is focused and active, Tab selects its next
\* button (wrapping); Tab, Shift-Tab and the arrows neither move the focus
\* nor deactivate the prompt; and a key ends that state only if it is Ctrl-C
\* or Enter on a button whose action returns true.
C4_ModalSuppressesNavigation ==
    [][\A p \in PromptIds :
          (PromptFocused(p, TRUE) /\ loop = "running" /\ ev'.op = "key") =>
              /\ ev'.key = "Tab" =>
                    pSelectedIdx'[p] = (pSelectedIdx[p] + 1) % NumButtons(p)
              /\ ev'.key \in {"Tab", "ShiftTab", "Up", "Down", "Left", "Right"} =>
                    /\ focusedIndex' = focusedIndex
                    /\ IsActive'[p]
                    /\ loop' = "running"
              /\ (focusedIndex' # focusedIndex \/ ~IsActive'[p] \/ loop' # "running") =>
                    \/ ev'.key = "CtrlC"
                    \/ /\ ev'.key = "Enter"
                       /\ ev'.ret
                       /\ calls' = << << "PromptButton", p, pSelectedIdx[p] >> >>]_vars

\* Tab on the modal prompt wrapped its selection from the last button to the
\* first, with another entry in the chain that Tab did not move to.
C4_Witness ==
    /\ AfterKey("Tab")
    /\ ev.target = "pm"
    /\ PromptFocused("pm", TRUE)
    /\ pSelectedIdx["pm"] = 0
    /\ pButtonActive["pm"][0]
    /\ Len(focusableElements) = 2

\* C5 as claimed: Escape dispatched to a focused, active, non-modal Prompt
\* leaves the prompt and all its buttons inactive and the focus on the next
\* chain entry, for every chain length.
C5_EscapeClosesNonModalPrompt ==
    [][\A p \in PromptIds :
          (PromptFocused(p, FALSE) /\ KeyStep("Esc")) =>
              /\ ~IsActive'[p]
              /\ \A i \in 0..(NumButtons(p) - 1) : ~pButtonActive'[p][i]
              /\ focusedIndex' = (focusedIndex + 1) % Len(focusableElements)]_vars

\* C6 as claimed: whenever a Prompt becomes active, its selected button is
\* button 0 and button 0 is its only active button.
C6_ActivationResetsSelection ==
    [][\A p \in PromptIds :
          (~IsActive[p] /\ IsActive'[p]) =>
              /\ pSelectedIdx'[p] = 0
              /\ \A i \in 0..(NumButtons(p) - 1) : pButtonActive'[p][i] <=> (i = 0)]_vars

\* The z-index the documentation gives each painted entry: 0 for an ordinary
\* element, 100 for a MenuBar, 150 for an open submenu, 1000 for a Prompt.
DocumentedZ(x) ==
    IF x \in MenuIds THEN (IF IsTopLevel(x) THEN 100 ELSE 150)
    ELSE IF Kind(x) = "MenuBar" THEN 100
    ELSE IF Kind(x) = "Prompt" THEN 1000
    ELSE 0

\* C7 as claimed: every rendered frame paints its entries in non-decreasing
\* documented z-index, so a Prompt is painted after every MenuBar, open
\* submenu and ordinary element.
C7_FrameInDocumentedZOrder ==
    \A i, j \in 1..Len(frame) :
        i < j => DocumentedZ(frame[i]) <= DocumentedZ(frame[j])

\* Parent(m): the menu whose item owns submenu m.
Parent(m) ==
    CHOOSE q \in MenuIds : \E i \in 0..(NumItems(q) - 1) : Item(q, i).SubMenu = m

SubMenuIds == MenuIds \ {TopMenu}

\* C8: Up pressed while a submenu opened from the menu bar is the active
\* level with its selection at index 0 closes that submenu and takes it out
\* of navigation; and from the step that opens it until then the parent
\* menu's selected index and item active flags never change.
C8_UpAtFirstItemClosesSubMenu ==
    [][\A sub \in SubMenuIds :
          /\ (/\ FocusedActive("MenuBar")
              /\ ActiveMenu = sub
              /\ mSelectedIdx[sub] = 0
              /\ KeyStep("Up")) =>
                  /\ ~mIsOpen'[sub]
                  /\ ActiveMenu' # sub
                  /\ mSelectedIdx'[Parent(sub)] = mSelectedIdx[Parent(sub)]
                  /\ mItemActive'[Parent(sub)] = mItemActive[Parent(sub)]
          /\ (ActiveMenu' = sub) =>
                  /\ mSelectedIdx'[Parent(sub)] = mSelectedIdx[Parent(sub)]
                  /\ mItemActive'[Parent(sub)] = mItemActive[Parent(sub)]]_vars

\* Up was routed to the submenu "file" of the menu bar and closed it; the bar
\* still has its second item, the owner of "file", selected.
C8_Witness ==
    /\ AfterKey("Up")
    /\ ev.level = "file"
    /\ ~mIsOpen["file"]
    /\ ActiveMenu = NoMenu
    /\ IsActive["mb"]
    /\ mSelectedIdx[TopMenu] = 1
    /\ mItemActive[TopMenu][1]

\* The menu level an active MenuBar routes Enter to.
CurrentMenu == IF ActiveMenu = NoMenu THEN TopMenu ELSE ActiveMenu

\* C9: Enter on a selected leaf item with an action, at any depth, runs that
\* action exactly once; if it returns true the MenuBar is inactive and no
\* submenu is open afterwards, and if it returns false the menu state is
\* unchanged.
C9_EnterOnLeafRunsAction ==
    [][(/\ FocusedActive("MenuBar")
        /\ mSelectedIdx[CurrentMenu] >= 0
        /\ mSelectedIdx[CurrentMenu] < NumItems(CurrentMenu)
        /\ Item(CurrentMenu, mSelectedIdx[CurrentMenu]).SubMenu = NoMenu
        /\ Item(CurrentMenu, mSelectedIdx[CurrentMenu]).HasAction
        /\ KeyStep("Enter")) =>
            /\ calls' = << << "MenuItem", CurrentMenu, mSelectedIdx[CurrentMenu] >> >>
            /\ ev'.ret =>
                  /\ \A e \in ElemIds : Kind(e) = "MenuBar" => ~IsActive'[e]
                  /\ \A sub \in SubMenuIds : ~mIsOpen'[sub]
                  /\ ActiveMenu' = NoMenu
            /\ ~ev'.ret =>
                  /\ UNCHANGED << mSelectedIdx, mIsOpen, mItemActive, ActiveMenu,
                                  IsActive, focusedIndex >>]_vars

\* Enter ran the action of the second leaf of the depth-2 submenu, it
\* returned true, and the whole tree is closed.
C9_Witness ==
    /\ AfterKey("Enter")
    /\ ev.ret
    /\ calls = << << "MenuItem", "recent", 1 >> >>
    /\ ~IsActive["mb"]
    /\ \A sub \in SubMenuIds : ~mIsOpen[sub]

\* C10: Escape dispatched to an active MenuBar, whatever submenus are open,
\* leaves the bar inactive, the top level without a selection, and every
\* submenu closed.
C10_EscapeDeactivatesMenuBar ==
    [][(FocusedActive("MenuBar") /\ KeyStep("Esc")) =>
            /\ ~IsActive'[Focused(Heap)]
            /\ ActiveMenu' = NoMenu
            /\ mSelectedIdx'[TopMenu] = -1
            /\ \A i \in 0..(NumItems(TopMenu) - 1) : ~mItemActive'[TopMenu][i]
            /\ \A sub \in SubMenuIds : ~mIsOpen'[sub]]_vars

\* Escape was routed to the depth-2 submenu and the bar is inactive with
\* every submenu closed.
C10_Witness ==
    /\ AfterKey("Esc")
    /\ ev.level = "recent"
    /\ ~IsActive["mb"]
    /\ mSelectedIdx[TopMenu] = -1
    /\ \A sub \in SubMenuIds : ~mIsOpen[sub]

\* The scroll offset, the highlighted index, the number of rows and the
\* height of the Container.
COffset == sbar["csb"].Value
CHighlighted == cont.HighlightedIndex
CRows == Len(cont.Content)
CHeight == cont.Height

Max(a, b) == IF a >= b THEN a ELSE b
Min(a, b) == IF a <= b THEN a ELSE b

\* C11 as claimed: after any sequence of HighlightNext, HighlightPrevious and
\* SetContent calls the scroll offset lies in [0, max(0, rows - height)] and,
\* whenever the content is non-empty, the highlighted index lies in
\* [offset, offset + height - 1].
C11_HighlightInsideViewport ==
    /\ COffset >= 0
    /\ COffset <= Max(0, CRows - CHeight)
    /\ CRows > 0 => (CHighlighted >= COffset /\ CHighlighted <= COffset + CHeight - 1)

\* C12: after k HighlightNext calls on a fresh Container of n rows and height
\* h, the highlighted index is min(k, n - 1) and the offset is
\* max(0, highlighted - h + 1).
C12_HighlightNextFollows ==
    (ev.op \in {"NewContainer", "HighlightNext"} /\ ev.index >= 0) =>
        /\ CHighlighted = Min(ev.index, CRows - 1)
        /\ COffset = Max(0, CHighlighted - CHeight + 1)

\* Eight HighlightNext calls on a fresh Container of 10 rows and height 4:
\* row 8 is highlighted and the offset is 5.
C12_Witness ==
    /\ ev.op = "HighlightNext"
    /\ ev.index = 8
    /\ CRows = 10
    /\ CHeight = 4
    /\ CHighlighted = 8
    /\ COffset = 5

\* v clamped into [0, mx]
Clamp(v, mx) == IF v < 0 THEN 0 ELSE IF v > mx THEN mx ELSE v

\* C13: SetValue(v) leaves the stored value equal to v clamped into
\* [0, MaxValue] and MaxValue as it was, and runs OnScroll exactly once, with
\* the new value, if the clamped value differs from the prior value, and not
\* at all otherwise.
C13_SetValueClampsAndNotifies ==
    [][ev'.op = "SetValue" =>
          /\ sbar'["sb"].Value = Clamp(ev'.index, sbar["sb"].MaxValue)
          /\ sbar'["sb"].MaxValue = sbar["sb"].MaxValue
          /\ calls' = IF Clamp(ev'.index, sbar["sb"].MaxValue) # sbar["sb"].Value
                      THEN << << "OnScroll", "sb", sbar'["sb"].Value >> >>
                      ELSE << >>]_vars

\* SetValue was called with the value the ScrollBar already had, in the
\* middle of its range, after a call that changed it: no notification.
C13_Witness ==
    /\ ev.op = "SetValue"
    /\ ev.index = sbar["sb"].Value
    /\ ev.index > 0
    /\ ev.index < sbar["sb"].MaxValue
    /\ calls = << >>

\* The RadioGroup's buttons whose IsSelected flag is set.
SelectedButtons == {i \in 0..(NumRadio - 1) : rg.IsSelected[i]}

\* C15: at most one button of the RadioGroup is selected, a button is
\* selected iff its position is the group's selected index, and a Select
\* call with an index outside [0, number of buttons) changes nothing.
C15_RadioSelectionConsistent ==
    /\ [](/\ Cardinality(SelectedButtons) <= 1
          /\ \A i \in 0..(NumRadio - 1) : rg.IsSelected[i] <=> (i = rg.SelectedIndex))
    /\ [][(ev'.op = "Select" /\ (ev'.index < 0 \/ ev'.index >= NumRadio)) =>
              rg' = rg]_vars

\* Select was called with an index past the last button after button 1 was
\* selected, and button 1 is still the selected one.
C15_Witness ==
    /\ ev.op = "Select"
    /\ ev.index >= NumRadio
    /\ rg.SelectedIndex = 1
    /\ SelectedButtons = {1}

\* The positions of text that do not hold a carriage return directly
\* followed by a line feed.
KeptPositions(text) ==
    {i \in 1..Len(text) : ~(text[i] = CR /\ i < Len(text) /\ text[i + 1] = LF)}

\* text without the carriage return of every "\r\n".
WithoutCRBeforeLF(text) ==
    [j \in 1..Cardinality(KeptPositions(text)) |->
        text[CHOOSE i \in KeptPositions(text) :
                 Cardinality({k \in KeptPositions(text) : k <= i}) = j]]

\* C14: after SetText(s), GetText returns s with every "\r\n" replaced by
\* "\n" and nothing else changed, the empty string and strings ending in a
\* newline included.
C14_SetTextGetTextRoundTrip ==
    ev.op = "SetText" => TextArea_GetText(Heap) = WithoutCRBeforeLF(ev.text)

\* SetText was called with a text that holds "\r\n" and ends in a newline,
\* and the TextArea holds its three lines.
C14_Witness ==
    /\ ev.op = "SetText"
    /\ ev.text = << "a", CR, LF, LF >>
    /\ tarea.Lines = << << "a" >>, << >>, << >> >>

\* C16: after RemoveElement removes the focused entry of the focus chain and
\* the chain is still non-empty, the focus index is within [0, length) of
\* the remaining chain, for every position of the removed entry, position 0
\* included.
C16_RemoveFocusedKeepsIndexValid ==
    [][(/\ ev'.op = "RemoveElement"
        /\ focusedIndex >= 0
        /\ focusedIndex < Len(focusableElements)
        /\ focusableElements[focusedIndex + 1] = ev'.elem
        /\ \A j \in 1..focusedIndex : focusableElements[j] # ev'.elem
        /\ Len(focusableElements') > 0)
          => (focusedIndex' >= 0 /\ focusedIndex' < Len(focusableElements'))]_vars

\* The window, menu, prompt and widget state after the step is that of s.
HeapIs(s) ==
    /\ windowVars' = << s.Elements, s.focusableElements, s.focusedIndex,
                        s.IsActive, s.pSelectedIdx, s.pButtonActive,
                        s.mSelectedIdx, s.mIsOpen, s.mItemActive, s.ActiveMenu >>
    /\ widgetVars' = << s.sbar, s.cont, s.tarea, s.tbox, s.Checked, s.rg >>

\* The built-in dispatch of the key of the step, from the state before it,
\* is what the step did.
BuiltInRan ==
    LET h == HandleKey(Heap, ev'.key, ev'.ret, ev'.rawOk)
    IN /\ HeapIs(h.s)
       /\ calls' = << << "HandleKeyStroke", ev'.key, 0 >> >> \o h.calls \o h.s.trace
       /\ ev'.rendered <=> (h.render /\ ~h.quit)
       /\ (loop' = "quit") <=> h.quit

\* C17 as claimed: with a custom key handler installed that reports
\* handled = true, no built-in branch runs, the frame is re-rendered iff the
\* handler requested it and the loop quits iff the handler requested it; with
\* handled = false the built-in dispatch runs as without a handler and the
\* handler's flags are ignored.
C17_HandledRendersIffRequested ==
    [][(ev'.op = "key" /\ KeyHandler) =>
          IF ev'.handled
          THEN /\ UNCHANGED << windowVars, widgetVars >>
               /\ calls' = << << "HandleKeyStroke", ev'.key, 0 >> >>
               /\ ev'.rendered <=> ev'.hRender
               /\ (loop' = "quit") <=> ev'.hQuit
          ELSE BuiltInRan]_vars

\* C17: with a custom key handler installed that reports handled = true, no
\* built-in branch runs (focus, menu, prompt, text and viewport state are
\* unchanged and no built-in callback runs), the loop quits iff the handler
\* requested it, and the frame is re-rendered iff the handler requested it
\* and did not request quit; with handled = false the built-in dispatch runs
\* as without a handler and the handler's flags are ignored.
C17_HandledSkipsBuiltIn ==
    [][(ev'.op = "key" /\ KeyHandler) =>
          IF ev'.handled
          THEN /\ UNCHANGED << windowVars, widgetVars >>
               /\ calls' = << << "HandleKeyStroke", ev'.key, 0 >> >>
               /\ ev'.rendered <=> (ev'.hRender /\ ~ev'.hQuit)
               /\ (loop' = "quit") <=> ev'.hQuit
          ELSE BuiltInRan]_vars

\* The handler claimed a Tab pressed on an active focused element and asked
\* for a re-render only: the frame was painted and the loop runs on.
C17_Witness ==
    /\ ev.op = "key"
    /\ KeyHandler
    /\ ev.handled
    /\ ev.hRender
    /\ ~ev.hQuit
    /\ ev.key = "Tab"
    /\ ev.target # ""
    /\ ev.rendered
    /\ loop = "running"

\* C18: when no custom handler claims the key, Ctrl-C ends the loop with that
\* event in every focus state (any focused element, active or not, an active
\* modal Prompt, an active MenuBar with open submenus, an empty focus chain),
\* and nothing happens once the loop has ended.
C18_CtrlCAlwaysQuits ==
    [][/\ loop # "quit"
       /\ (ev'.op = "key" /\ ev'.key = "CtrlC" /\ ~(KeyHandler /\ ev'.handled))
             => loop' = "quit"]_vars

\* Ctrl-C was pressed while the active MenuBar had its nested submenu open,
\* and the loop has ended.
C18_Witness ==
    /\ ev.op = "key"
    /\ ev.key = "CtrlC"
    /\ ev.target = "mb"
    /\ ev.level = "recent"
    /\ loop = "quit"

\* text with character c put in before position pos (0-based).
InsertAt(text, pos, c) ==
    SubSeq(text, 1, pos) \o << c >> \o SubSeq(text, pos + 1, Len(text))

\* C19: 'q' and 'Q' quit only outside text editing: pressed on an active
\* TextBox or TextArea they never end the loop and are inserted into the text
\* at the cursor like any printable character; pressed with the focus on a
\* Button, CheckBox, RadioButton, Container or ScrollBar they end the loop.
C19_QuitKeyOnlyOutsideText ==
    [][(ev'.op = "key" /\ ev'.key \in {"q", "Q"} /\ ~(KeyHandler /\ ev'.handled)) =>
          /\ FocusedIs(Heap, "TextBox") =>
                /\ loop' = "running"
                /\ tbox'.Text = IF tbox.IsPristine THEN << ev'.key >>
                                ELSE InsertAt(tbox.Text, tbox.CursorPos, ev'.key)
          /\ FocusedIs(Heap, "TextArea") =>
                /\ loop' = "running"
                /\ Len(tarea'.Lines) = Len(tarea.Lines)
                /\ \A k \in 1..Len(tarea.Lines) :
                      tarea'.Lines[k] =
                          IF k = tarea.cursorLine + 1
                          THEN InsertAt(tarea.Lines[k], tarea.cursorCol, ev'.key)
                          ELSE tarea.Lines[k]
          /\ (HasFocus(Heap) /\ Kind(Focused(Heap)) \in
                  {"Button", "CheckBox", "RadioButton", "Container", "ScrollBar"})
                => loop' = "quit"]_vars

\* 'q' was typed into the active TextArea in front of an 'x', and the loop
\* runs on.
C19_Witness ==
    /\ ev.op = "key"
    /\ ev.key = "q"
    /\ ev.target = "ta"
    /\ tarea.Lines = << << "q", "x" >> >>
    /\ loop = "running"

\* C20: whenever the loop has ended after the terminal state was captured
\* (quit key, action signalling quit, handler requesting quit, read error,
\* failure to enter or re-enter raw mode), the terminal is in its original
\* cooked mode and the cursor is visible.
C20_TerminalRestoredOnExit ==
    loop = "quit" => (~termRaw /\ cursorShown)

\* The loop ended because raw mode could not be re-entered after a Button's
\* action returned.
C20_Witness ==
    /\ loop = "quit"
    /\ ev.op = "key"
    /\ ev.key = "Enter"
    /\ ev.target = "btn"
    /\ ~ev.ret
    /\ ~ev.rawOk
    /\ ~termRaw
    /\ cursorShown

\* The element reports an active cursor with a valid position: an active
\* TextBox, or the active TextArea with its cursor inside the visible text.
ReportsCursor(e) ==
    \/ Kind(e) = "TextBox" /\ IsActive[e]
    \/ Kind(e) = "TextArea" /\ IsActive[e] /\ TextArea_cursorValid(Heap)

\* The positions in w.Elements of the elements that report a cursor.
CursorPositions == {k \in 1..Len(Elements) : ReportsCursor(Elements[k])}

\* C21: in every rendered frame the cursor is shown iff some element of
\* w.Elements reports an active cursor with a valid position, it is then at
\* the position of the first such element in insertion order, and it is
\* shown only for an active TextBox or TextArea.
C21_CursorFollowsFirstOwner ==
    ev.op = "Render" =>
        /\ cursorShown <=> CursorPositions # {}
        /\ CursorPositions # {} =>
              \E k \in CursorPositions :
                  /\ cursorAt = Elements[k]
                  /\ \A j \in CursorPositions : k <= j
        /\ cursorShown =>
              (Kind(cursorAt) \in {"TextBox", "TextArea"} /\ IsActive[cursorAt])

\* A frame of a window whose active TextArea was added before its active
\* TextBox: the cursor is shown at the TextArea's position.
C21_Witness ==
    /\ ev.op = "Render"
    /\ Elements = << "ta", "tb" >>
    /\ IsActive["ta"]
    /\ IsActive["tb"]
    /\ TextArea_cursorValid(Heap)
    /\ cursorShown
    /\ cursorAt = "ta"

\* C22: when a title of width-1 characters is wider than the available
\* width W, Render produces a frame whose title is the first W-3 characters
\* followed by "..." if W > 3, and the first W characters if W <= 3.
C22_LongTitleTruncated ==
    (ev.op = "Render" /\ Len(Title) > Width) =>
        /\ ~topBorder.panic
        /\ topBorder.title = IF Width > 3
                       THEN SubSeq(Title, 1, Width - 3) \o << ".", ".", "." >>
                       ELSE SubSeq(Title, 1, Width)

\* C23: Enter on a focused active Container with a valid highlighted row,
\* without a custom key handler, selects that row: the selected index becomes
\* the highlighted index and OnItemSelected is invoked with that index.
C23_EnterSelectsHighlightedRow ==
    [][(/\ ev'.op = "key"
        /\ ev'.key = "Enter"
        /\ ~KeyHandler
        /\ FocusedIs(Heap, "Container")
        /\ cont.HighlightedIndex >= 0
        /\ cont.HighlightedIndex < Len(cont.Content))
          => /\ cont'.SelectedIndex = cont.HighlightedIndex
             /\ calls' = << << "OnItemSelected", "ct", cont.HighlightedIndex >> >>]_vars

\* The Prompt that is focused and active, when there is one.
ActivePrompt == Focused(Heap)

\* C24 as claimed: Tab dispatched to an active non-modal Prompt moves its
\* button selection to the next button.
C24_TabSelectsNextButton ==
    [][(/\ ev'.op = "key"
        /\ ev'.key = "Tab"
        /\ FocusedIs(Heap, "Prompt")
        /\ ~Modal(ActivePrompt))
          => pSelectedIdx'[ActivePrompt] =
                 (pSelectedIdx[ActivePrompt] + 1) % NumButtons(ActivePrompt)]_vars

\* C24: Tab dispatched to an active modal Prompt moves its button selection
\* to the next button and leaves the window focus alone; dispatched to an
\* active non-modal Prompt it advances the window focus by one entry and
\* changes no prompt's button selection.
C24_TabSelectsOnlyInModalPrompt ==
    [][(/\ ev'.op = "key"
        /\ ev'.key = "Tab"
        /\ FocusedIs(Heap, "Prompt"))
          => IF Modal(ActivePrompt)
             THEN /\ pSelectedIdx'[ActivePrompt] =
                        (pSelectedIdx[ActivePrompt] + 1) % NumButtons(ActivePrompt)
                  /\ focusedIndex' = focusedIndex
                  /\ IsActive' = IsActive
             ELSE /\ pSelectedIdx' = pSelectedIdx
                  /\ focusedIndex' = WrapIndex(focusedIndex + 1,
                                               Len(focusableElements))]_vars

\* Tab was pressed on the active non-modal Prompt: the focus went on to
\* another element and the prompt's second button is still the selected one.
C24_Witness ==
    /\ ev.op = "key"
    /\ ev.key = "Tab"
    /\ ev.target = "pn"
    /\ pSelectedIdx["pn"] = 1
    /\ HasFocus(Heap)
    /\ Focused(Heap) # "pn"
    /\ ~IsActive["pn"]

\* The entries of calls made for a Button's action.
ButtonCalls(cs) == {i \in 1..Len(cs) : cs[i][1] = "Button"}

\* C25: a Button's action invoked by Enter runs with the terminal in cooked
\* mode; if it did not signal quit and raw mode is entered again, the loop
\* goes on in raw mode with the frame re-rendered; if it signalled quit, or
\* raw mode cannot be entered again, the loop quits; and the loop never waits
\* for a key with the terminal in cooked mode.
C25_ButtonActionCookedThenRaw ==
    /\ [](loop = "running" => termRaw)
    /\ [][(ev'.op = "key" /\ ButtonCalls(calls') # {})
            => /\ \A i \in ButtonCalls(calls') : calls'[i][3] = 0
               /\ Cardinality(ButtonCalls(calls')) = 1
               /\ (~ev'.ret /\ ev'.rawOk)
                     => (loop' = "running" /\ termRaw' /\ ev'.rendered)
               /\ (ev'.ret \/ ~ev'.rawOk)
                     => (loop' = "quit" /\ ~ev'.rendered)]_vars

\* Enter ran the Button's action, which did not ask to quit, and the loop
\* waits for the next key in raw mode with the frame rendered again.
C25_Witness ==
    /\ ev.op = "key"
    /\ ev.key = "Enter"
    /\ ev.target = "btn"
    /\ ~ev.ret
    /\ calls = << << "Button", "btn", 0 >> >>
    /\ loop = "running"
    /\ termRaw
    /\ ev.rendered

\* C26: Enter on an active Prompt invokes the selected button's action once
\* and nothing else, or nothing if that button has no action; the prompt
\* becomes inactive iff the action ran and returned true, and the loop quits
\* in exactly those cases; otherwise the prompt stays active with the same
\* button selected.
C26_PromptEnterClosesIffQuits ==
    [][(/\ ev'.op = "key"
        /\ ev'.key = "Enter"
        /\ FocusedIs(Heap, "Prompt"))
          => LET p == ActivePrompt
                 i == pSelectedIdx[p]
                 closes == ButtonHasAction(p, i) /\ ev'.ret
             IN /\ calls' = IF ButtonHasAction(p, i)
                            THEN << << "PromptButton", p, i >> >>
                            ELSE << >>
                /\ ~IsActive'[p] <=> closes
                /\ loop' = "quit" <=> closes
                /\ ~closes => /\ pSelectedIdx'[p] = i
                              /\ pButtonActive'[p] = pButtonActive[p]
                              /\ pButtonActive'[p][i]
                              /\ ev'.rendered]_vars

\* Enter on the non-modal prompt ran the action of its second button, which
\* returned true: the prompt is closed and the loop has quit.
C26_Witness ==
    /\ ev.op = "key"
    /\ ev.key = "Enter"
    /\ ev.target = "pn"
    /\ ev.ret
    /\ calls = << << "PromptButton", "pn", 1 >> >>
    /\ ~IsActive["pn"]
    /\ loop = "quit"

\* C27 as claimed: Up pressed while a submenu of any depth is the active
\* level with its selection at its first item closes that submenu and no
\* other, and makes its parent menu the level that gets the next keys, with
\* the parent's selection unchanged.
C27_UpPopsToParentLevel ==
    [][\A sub \in SubMenuIds :
          (/\ FocusedActive("MenuBar")
           /\ ActiveMenu = sub
           /\ mSelectedIdx[sub] = 0
           /\ KeyStep("Up")) =>
               /\ ~mIsOpen'[sub]
               /\ \A q \in MenuIds \ {sub} : mIsOpen'[q] = mIsOpen[q]
               /\ CurrentMenu' = Parent(sub)
               /\ mSelectedIdx'[Parent(sub)] = mSelectedIdx[Parent(sub)]]_vars

\* The submenu owned by the selected item of the level that gets the keys,
\* NoMenu if there is no such item or it owns none.
SelectedSubMenu ==
    LET sel == mSelectedIdx[CurrentMenu]
    IN IF sel >= 0 /\ sel < NumItems(CurrentMenu)
       THEN Item(CurrentMenu, sel).SubMenu
       ELSE NoMenu

\* The submenu is open with its first item selected and is the level that
\* gets the next keys, in the state after the step.
OpenedAsLevel(sub) ==
    /\ mIsOpen'[sub]
    /\ mSelectedIdx'[sub] = 0
    /\ mItemActive'[sub][0]
    /\ ActiveMenu' = sub

\* C28 as claimed: whenever the selected item of the level that gets the
\* keys, the top level or a submenu of any depth, owns a submenu, Down and
\* Enter each open that submenu with its first item selected and make it the
\* level that gets the next keys.
C28_DownAndEnterOpenSubMenu ==
    [][(/\ FocusedActive("MenuBar")
        /\ SelectedSubMenu # NoMenu
        /\ (KeyStep("Down") \/ KeyStep("Enter")))
          => OpenedAsLevel(SelectedSubMenu)]_vars

\* C28: whenever the selected item of the level that gets the keys owns a
\* submenu, Enter opens that submenu with its first item selected and makes
\* it the level that gets the next keys, at any depth; Down does the same at
\* the top level only, and inside a submenu moves the selection to the next
\* item (wrapping) and opens nothing.  The selection of the level the key was
\* sent to is unchanged when a submenu is opened.
C28_EnterOpensSubMenuDownAtTopOnly ==
    [][(/\ FocusedActive("MenuBar")
        /\ SelectedSubMenu # NoMenu)
          => /\ (KeyStep("Enter") \/ (KeyStep("Down") /\ ActiveMenu = NoMenu))
                  => /\ OpenedAsLevel(SelectedSubMenu)
                     /\ mSelectedIdx'[CurrentMenu] = mSelectedIdx[CurrentMenu]
                     /\ calls' = << >>
                     /\ loop' = "running"
             /\ (KeyStep("Down") /\ ActiveMenu # NoMenu)
                  => /\ ActiveMenu' = ActiveMenu
                     /\ mIsOpen' = mIsOpen
                     /\ mSelectedIdx'[ActiveMenu] =
                            (mSelectedIdx[ActiveMenu] + 1) % NumItems(ActiveMenu)]_vars

\* Enter was routed to the submenu "file" with its second item selected and
\* opened the nested submenu "recent", which is now the active level with its
\* first item selected.
C28_Witness ==
    /\ AfterKey("Enter")
    /\ ev.level = "file"
    /\ mSelectedIdx["file"] = 1
    /\ mIsOpen["recent"]
    /\ mSelectedIdx["recent"] = 0
    /\ mItemActive["recent"][0]
    /\ ActiveMenu = "recent"

\* The ScrollBar agrees with a content of the given length shown in the
\* given number of rows.
ScrollBarFits(sb, length, visibleHeight) ==
    /\ sb.Visible <=> length > visibleHeight
    /\ sb.MaxValue = Max(0, length - visibleHeight)
    /\ sb.Value \in 0..sb.MaxValue
    /\ ~sb.Visible => (sb.Value = 0 /\ sb.MaxValue = 0)

\* C29: after the construction, after any Container content change and after
\* any TextArea edit or SetText, the owned ScrollBar is visible iff the
\* content is longer than the visible height (the Container's height; the
\* TextArea's height less the status line), its max is
\* max(0, length - visible height), its value is in [0, max], and a hidden
\* bar has value 0 and max 0.
C29_OwnedScrollBarFitsContent ==
    /\ ScrollBarFits(sbar["csb"], Len(cont.Content), cont.Height)
    /\ ScrollBarFits(sbar["tsb"], Len(tarea.Lines), tarea.Height - 1)

\* SetContent shortened the Container's content to what fits its height
\* after the view had been scrolled down, and the TextArea holds more lines
\* than it shows: the Container's bar is hidden at 0, the TextArea's visible.
C29_Witness ==
    /\ ev.op = "SetContent"
    /\ Len(cont.Content) > 0
    /\ ~sbar["csb"].Visible
    /\ sbar["csb"].Value = 0
    /\ sbar["tsb"].Visible
    /\ sbar["tsb"].Value > 0
    /\ sbar["tsb"].MaxValue = Len(tarea.Lines) - (tarea.Height - 1)

\* The entries of the focus chain whose active flag is set.
ActiveEntries ==
    {e \in AllIds : InChain(Heap, e) /\ IsActive[e]}

\* The element was added to the window before.
InWindow(e) == \E i \in 1..Len(Elements) : Elements[i] = e

ChainHasNoDuplicates ==
    \A i, j \in 1..Len(focusableElements) :
        focusableElements[i] = focusableElements[j] => i = j

\* C31 as claimed: no element is ever twice in the focus chain; adding a
\* Container that is not in the chain appends exactly the two entries
\* Container, ScrollBar in that order; and Tab on the active Container moves
\* the focus to its ScrollBar.
C31_ContainerAlwaysAddsTwoEntries ==
    /\ []ChainHasNoDuplicates
    /\ [][(/\ ev'.op = "AddElement"
           /\ ev'.elem = "ct"
           /\ ~InChain(Heap, "ct"))
             => focusableElements' = focusableElements \o << "ct", "csb" >>]_vars
    /\ [][(KeyStep("Tab") /\ FocusedIs(Heap, "Container"))
             => /\ focusableElements'[focusedIndex' + 1] = "csb"
                /\ IsActive'["csb"]]_vars

\* Those of the Container and its ScrollBar, in that order, that are not in
\* the focus chain.
ContainerEntriesMissing ==
    (IF InChain(Heap, "ct") THEN << >> ELSE << "ct" >>)
        \o (IF InChain(Heap, "csb") THEN << >> ELSE << "csb" >>)

\* C31: no element is ever twice in the focus chain, whatever is added
\* again; adding the Container appends, in the order Container, ScrollBar,
\* those of the two that are not in the chain yet: both when neither is,
\* only the Container when its ScrollBar was added before, nothing when both
\* are; and Tab on the active Container moves the focus to the entry behind
\* it, the first one if it is the last, which is the ScrollBar when the two
\* were appended together.
C31_ContainerAddsMissingEntries ==
    /\ []ChainHasNoDuplicates
    /\ [][(ev'.op = "AddElement" /\ ev'.elem = "ct")
             => focusableElements' = focusableElements \o ContainerEntriesMissing]_vars
    /\ [][(KeyStep("Tab") /\ FocusedIs(Heap, "Container"))
             => /\ focusableElements' = focusableElements
                /\ focusedIndex' = (focusedIndex + 1) % Len(focusableElements)
                /\ IsActive'[focusableElements[focusedIndex' + 1]]
                /\ (focusedIndex + 2 <= Len(focusableElements)
                      /\ focusableElements[focusedIndex + 2] = "csb")
                        => (IsActive'["csb"] /\ ~IsActive'["ct"])]_vars

\* The ScrollBar of the Container was added on its own, then the Container,
\* which appended one entry, then a Button: Tab has moved the focus from the
\* Container to the Button.
C31_Witness ==
    /\ AfterKey("Tab")
    /\ ev.target = "ct"
    /\ Elements = << "csb", "ct", "btn" >>
    /\ focusableElements = << "csb", "ct", "btn" >>
    /\ focusedIndex = 2
    /\ IsActive["btn"]
    /\ ~IsActive["csb"]

\* The cap of the TextArea is reached.
CapReached == tarea.maxChars > 0 /\ tarea.charCount >= tarea.maxChars

\* The line of the TextArea the cursor is in.
CursorLine == tarea.Lines[tarea.cursorLine + 1]

\* C32: once the character count of a TextArea with a cap M > 0 has reached
\* M, InsertChar of a character that is not a newline changes nothing of the
\* TextArea or its ScrollBar, and InsertChar of a newline splits the cursor
\* line in two and puts the cursor at the start of the new line.
C32_CapBlocksAllButNewline ==
    [][(ev'.op = "InsertChar" /\ CapReached)
          => IF ev'.key # LF
             THEN /\ tarea' = tarea
                  /\ sbar' = sbar
                  /\ calls' = << >>
             ELSE /\ Len(tarea'.Lines) = Len(tarea.Lines) + 1
                  /\ tarea'.cursorLine = tarea.cursorLine + 1
                  /\ tarea'.cursorCol = 0
                  /\ tarea'.charCount = tarea.charCount + 1
                  /\ tarea'.Lines =
                         SubSeq(tarea.Lines, 1, tarea.cursorLine)
                           \o << SubSeq(CursorLine, 1, tarea.cursorCol),
                                 SubSeq(CursorLine, tarea.cursorCol + 1,
                                        Len(CursorLine)) >>
                           \o SubSeq(tarea.Lines, tarea.cursorLine + 2,
                                     Len(tarea.Lines))]_vars

\* The cap of 2 was reached by typing; after that a letter was refused and a
\* newline was inserted, so the text is one character longer than the cap.
C32_Witness ==
    /\ ev.op = "InsertChar"
    /\ ev.key = LF
    /\ tarea.maxChars = 2
    /\ tarea.charCount = 3
    /\ tarea.Lines = << << "a", "a" >>, << >> >>

ActiveItems(m) == {i \in 0..(NumItems(m) - 1) : mItemActive[m][i]}

\* C34 as claimed: in the top-level menu and in each submenu at most one item
\* has its active flag set, and if the menu has a selected index no other
\* item than the one at that index has it.
C34_AtMostOneActiveItem ==
    \A m \in MenuIds :
        /\ Cardinality(ActiveItems(m)) <= 1
        /\ (mSelectedIdx[m] >= 0 /\ mSelectedIdx[m] < NumItems(m))
              => ActiveItems(m) \subseteq {mSelectedIdx[m]}

\* C35 as claimed: every entry of the focus chain is an element in the
\* window's element list or the internal ScrollBar of a Container that is in
\* the element list.
C35_ChainEntriesAreInWindow ==
    \A i \in 1..Len(focusableElements) :
        \/ InWindow(focusableElements[i])
        \/ focusableElements[i] = "csb" /\ InWindow("ct")

\* The highlighted row of the Container is inside its viewport.
HighlightVisible ==
    CHighlighted >= COffset /\ CHighlighted <= COffset + CHeight - 1

\* C36 as claimed: after Up or Down on the focused internal ScrollBar of the
\* Container, the Container's highlighted row is inside the viewport
\* [offset, offset + height - 1].
C36_ScrollKeepsHighlightVisible ==
    [][((KeyStep("Up") \/ KeyStep("Down"))
            /\ FocusedIs(Heap, "ScrollBar") /\ Focused(Heap) = "csb")
          => HighlightVisible']_vars

\* C36: Up and Down on the focused internal ScrollBar of the Container move
\* only the offset, by one row and not beyond [0, max], and leave the
\* highlighted row where it is, inside the viewport or not; Up and Down on
\* the focused Container move the highlighted row by one within
\* [0, rows - 1], and whenever the highlighted row moved it is inside the
\* viewport afterwards.
C36_ScrollMovesOffsetOnly ==
    [][(KeyStep("Up") \/ KeyStep("Down"))
          => /\ (FocusedIs(Heap, "ScrollBar") /\ Focused(Heap) = "csb")
                  => /\ cont' = cont
                     /\ sbar'["csb"] =
                          [sbar["csb"] EXCEPT !.Value =
                              IF sbar["csb"].Visible
                              THEN Clamp(IF ev'.key = "Up" THEN @ - 1 ELSE @ + 1,
                                         sbar["csb"].MaxValue)
                              ELSE @]
             /\ FocusedIs(Heap, "Container")
                  => /\ CHighlighted' =
                            Clamp(IF ev'.key = "Up" THEN CHighlighted - 1
                                  ELSE CHighlighted + 1, CRows - 1)
                     /\ CHighlighted' # CHighlighted => HighlightVisible']_vars

\* Down on the focused ScrollBar of the Container scrolled the view to row 1
\* while row 0 is still the highlighted one.
C36_Witness ==
    /\ AfterKey("Down")
    /\ ev.target = "csb"
    /\ COffset = 1
    /\ CHighlighted = 0
    /\ ~HighlightVisible

\* C37: after any sequence of InsertChar, DeleteChar, DeleteForward, cursor
\* moves and SetText on the active TextArea, the line list is non-empty, the
\* cursor line is the index of a line, the cursor column is between 0 and the
\* length of the cursor line, the top visible line equals the value of the
\* TextArea's ScrollBar, and the cursor line is one of the visible lines
\* [topLine, topLine + visibleHeight - 1].
C37_CursorAndViewInRange ==
    /\ IsActive["ta"]
    /\ Len(tarea.Lines) > 0
    /\ tarea.cursorLine >= 0
    /\ tarea.cursorLine < Len(tarea.Lines)
    /\ tarea.cursorCol >= 0
    /\ tarea.cursorCol <= Len(tarea.Lines[tarea.cursorLine + 1])
    /\ tarea.viewTopLine = sbar["tsb"].Value
    /\ tarea.cursorLine >= tarea.viewTopLine
    /\ tarea.cursorLine <= tarea.viewTopLine + TextArea_visibleHeight(Heap) - 1

\* A newline typed on the last visible line of the TextArea scrolled the view
\* down: the top visible line is no longer line 0 and the cursor is on the
\* last visible line.
C37_Witness ==
    /\ ev.op = "InsertChar"
    /\ ev.key = LF
    /\ tarea.viewTopLine > 0
    /\ sbar["tsb"].Visible
    /\ tarea.cursorLine = tarea.viewTopLine + TextArea_visibleHeight(Heap) - 1

\* The InsertChar of the last step was not refused by the character cap.
InsertNotBlocked ==
    ~(tarea.maxChars > 0 /\ ev.before[4] >= tarea.maxChars /\ ev.key # LF)

\* C38: on the active TextArea, a Backspace directly after the insertion of
\* a character (printable or newline) that the character cap did not refuse
\* gives back the lines, the cursor line and the cursor column of before the
\* insertion.
C38_BackspaceUndoesInsert ==
    [][(ev.op = "InsertChar" /\ InsertNotBlocked /\ ev'.op = "DeleteChar")
          => /\ IsActive["ta"]
             /\ tarea'.Lines = ev.before[1]
             /\ tarea'.cursorLine = ev.before[2]
             /\ tarea'.cursorCol = ev.before[3]]_vars

\* A Backspace directly after a newline typed inside a non-empty line, below
\* the cap: the two halves are one line again and the cursor is back inside
\* it.
C38_Witness ==
    /\ ev.op = "DeleteChar"
    /\ Len(ev.before) = 4
    /\ tarea.maxChars > 0
    /\ ev.before[4] < tarea.maxChars
    /\ tarea.Lines = ev.before[1]
    /\ tarea.cursorLine = ev.before[2]
    /\ tarea.cursorCol = ev.before[3]
    /\ tarea.cursorCol > 0
    /\ tarea.cursorCol < Len(tarea.Lines[tarea.cursorLine + 1])

\* C39 as claimed: for every width of the window and every width of the
\* title, Render computes a left padding, a right padding and an interior
\* fill width that are not negative, and the top border row (corner, left
\* padding, title, right padding, corner) is as wide as the window; also when
\* the title is as wide as the window or wider and is truncated.
C39_TopBorderFitsWindow ==
    ev.op = "Render" =>
        /\ ~topBorder.panic
        /\ RenderTop(Heap).leftPadding >= 0
        /\ RenderTop(Heap).rightPadding >= 0
        /\ Width - 2 >= 0
        /\ 1 + RenderTop(Heap).leftPadding + Len(RenderTop(Heap).title)
              + RenderTop(Heap).rightPadding + 1 = Width

\* C40: for a Prompt with at least one button, after any sequence of
\* SetActive, SelectNext, SelectPrevious and ActivateSelected, the selected
\* index is the index of a button, and a button's active flag is set exactly
\* when the Prompt is active and the button is the selected one: an inactive
\* Prompt has no active button, an active one has exactly one.
C40_OneActiveButtonIffPromptActive ==
    \A p \in PromptIds :
        NumButtons(p) >= 1 =>
            /\ pSelectedIdx[p] >= 0
            /\ pSelectedIdx[p] < NumButtons(p)
            /\ \A i \in 0..(NumButtons(p) - 1) :
                   pButtonActive[p][i] <=> (IsActive[p] /\ i = pSelectedIdx[p])

\* Left on the focused dialog Prompt whose first button was selected: the
\* selection wrapped to the last button, which is the only active one.
C40_Witness ==
    /\ AfterKey("Left")
    /\ ev.target = "pm"
    /\ IsActive["pm"]
    /\ pSelectedIdx["pm"] = NumButtons("pm") - 1
    /\ pButtonActive["pm"][NumButtons("pm") - 1]
    /\ ~pButtonActive["pm"][0]

====
